---------------------------- MODULE Spec2Model ----------------------------
(***************************************************************************)
(* A model of ManagerDaemon (src/mcl.py), the autonomy-governed approval  *)
(* system of multi-claude: the agent registry, the decision store, the    *)
(* interaction log and the configuration, all kept in one SQLite file,    *)
(* and the pure risk / confidence / escalation computations over them.    *)
(*                                                                         *)
(* Numbers.  Python floats are modelled exactly: a score passed by a      *)
(* caller or held in a table is an integer number of hundredths (0.8 is   *)
(* 80), and a computed score is a fraction [n |-> .., d |-> ..] with      *)
(* d > 0, compared by cross-multiplication.  Floating-point rounding is   *)
(* not modelled.                                                           *)
(*                                                                         *)
(* Text.  TLC cannot take a string apart, so the text that _assess_risk   *)
(* scans is a sequence of one-character strings; Chars is the table from  *)
(* the strings a request holds to their characters.                       *)
(***************************************************************************)
EXTENDS Integers, Sequences, FiniteSets, TLC

VARIABLES
    agents,     \* table agents: rows in rowid order
    notes,      \* agents_dir/<id>/TASK_MEMORY.md, for the ids that have a directory
    decisions,  \* table manager_decisions: rows in rowid order
    logs,       \* table interaction_logs: rows in rowid order
    config,     \* table manager_config: key -> value, None when no row
    now,        \* the wall clock, in seconds
    last,       \* the facade call just made: [op, args, raised, ret]
    calls,      \* the number of calls made so far
    approval_queue, \* table approval_queue: rows in rowid order
    inflight    \* a record_decision call that is between two of its statements

vars == <<agents, notes, decisions, logs, config, now, last, calls,
          approval_queue, inflight>>

-----------------------------------------------------------------------------
(* Bounds of the model *)

\* The number of calls (and clock movements) in a behaviour.
MaxCalls == 4
\* The spacing, in hundredths, of the confidence scores and random draws tried.
GridStep == 10

-----------------------------------------------------------------------------
(* Values *)

\* Python's None, SQL's NULL: distinct from every string a caller passes.
None == "<None>"

\* No record_decision call is between two of its statements.
Idle ==
    [pc |-> "idle",
     args |-> [agent_id |-> None,
               request_data |-> [py |-> None, tool |-> None, key |-> None, value |-> None],
               decision |-> None, confidence_score |-> 0, model_used |-> None,
               session_id |-> None],
     started_under |-> None, decision_id |-> 0, session_id |-> None, level_read |-> None]

\* 30 days in seconds: datetime('now', '-30 days').
ThirtyDays == 2592000

MaxNow == ThirtyDays + 1

Frac(n, d) == [n |-> n, d |-> d]
FracEq(a, b) == a.n * b.d = b.n * a.d
FracLess(a, b) == a.n * b.d < b.n * a.d
FracLeq(a, b) == a.n * b.d <= b.n * a.d
Hundredths(x) == Frac(x, 100)

RECURSIVE SeqSum(_)
SeqSum(s) == IF s = <<>> THEN 0 ELSE Head(s) + SeqSum(Tail(s))

SetMax(S) == CHOOSE x \in S : \A y \in S : y <= x

-----------------------------------------------------------------------------
(* Requests: the Python values passed as request_data.  A dict request    *)
(* {"tool": t, key: value}, or a bare string (not a dict).                *)

Dict(t, k, v) == [py |-> "dict", tool |-> t, key |-> k, value |-> v]
Str(v) == [py |-> "str", tool |-> None, key |-> None, value |-> v]

\* request_data.get("tool"): a str has no .get
HasGet(request_data) == request_data.py = "dict"
GetTool(request_data) == request_data.tool

Chars ==
       ("tool" :> <<"t","o","o","l">>)
    @@ ("command" :> <<"c","o","m","m","a","n","d">>)
    @@ ("file" :> <<"f","i","l","e">>)
    @@ ("bash" :> <<"b","a","s","h">>)
    @@ ("read" :> <<"r","e","a","d">>)
    @@ ("edit" :> <<"e","d","i","t">>)
    @@ ("rm -rf /" :> <<"r","m"," ","-","r","f"," ","/">>)
    @@ ("main.py" :> <<"m","a","i","n",".","p","y">>)
    @@ ("curl -X DELETE" :> <<"c","u","r","l"," ","-","X"," ","D","E","L","E","T","E">>)
    @@ ("cat delete.me" :> <<"c","a","t"," ","d","e","l","e","t","e",".","m","e">>)
    @@ ("npm install" :> <<"n","p","m"," ","i","n","s","t","a","l","l">>)
    @@ ("sudo chown" :> <<"s","u","d","o"," ","c","h","o","w","n">>)
    @@ ("wget" :> <<"w","g","e","t">>)
    @@ ("migration" :> <<"m","i","g","r","a","t","i","o","n">>)
    @@ (".env" :> <<".","e","n","v">>)
    @@ ("true" :> <<"t","r","u","e">>)
    @@ ("ls" :> <<"l","s">>)

Quoted(s) == <<"\"">> \o Chars[s] \o <<"\"">>

\* json.dumps(request_data) with the default separators ", " and ": ".
json_dumps(request_data) ==
    IF request_data.py = "dict"
    THEN <<"{">> \o Quoted("tool") \o <<":", " ">> \o Quoted(request_data.tool)
               \o <<",", " ">>
               \o Quoted(request_data.key) \o <<":", " ">> \o Quoted(request_data.value)
               \o <<"}">>
    ELSE Quoted(request_data.value)

UpperCase == <<"A","B","C","D","E","F","G","H","I","J","K","L","M",
               "N","O","P","Q","R","S","T","U","V","W","X","Y","Z">>
LowerCase == <<"a","b","c","d","e","f","g","h","i","j","k","l","m",
               "n","o","p","q","r","s","t","u","v","w","x","y","z">>

\* str.lower()
lower(s) ==
    [i \in 1..Len(s) |->
        IF \E j \in 1..Len(UpperCase) : UpperCase[j] = s[i]
        THEN LowerCase[CHOOSE j \in 1..Len(UpperCase) : UpperCase[j] = s[i]]
        ELSE s[i]]

\* keyword in request_str
Contains(text, keyword) ==
    \E i \in 0..(Len(text) - Len(keyword)) :
        \A j \in 1..Len(keyword) : text[i + j] = keyword[j]

-----------------------------------------------------------------------------
(* Risk Assessor: ManagerDaemon._assess_risk *)

\* The categories in the order the dict lists them.
risk_categories ==
    <<"destructive", "system", "network", "database", "config", "external",
      "files", "install", "read", "test">>

risk_indicators ==
    [ destructive |-> <<
          <<"r","m"," ","-","r","f">>,                          \* "rm -rf"
          <<"d","e","l","e","t","e">>,                          \* "delete"
          <<"d","r","o","p"," ","t","a","b","l","e">>,          \* "drop table"
          <<"t","r","u","n","c","a","t","e">>,                  \* "truncate"
          <<"f","o","r","m","a","t">>                           \* "format"
      >>,
      system |-> <<
          <<"s","u","d","o">>,                                  \* "sudo"
          <<"c","h","m","o","d"," ","7","7","7">>,              \* "chmod 777"
          <<"c","h","o","w","n">>,                              \* "chown"
          <<"p","a","s","s","w","d">>                           \* "passwd"
      >>,
      network |-> <<
          <<"c","u","r","l"," ","-","X"," ","D","E","L","E","T","E">>,  \* "curl -X DELETE"
          <<"w","g","e","t">>,                                  \* "wget"
          <<"s","s","h">>,                                      \* "ssh"
          <<"s","c","p">>                                       \* "scp"
      >>,
      database |-> <<
          <<"a","l","t","e","r"," ","t","a","b","l","e">>,      \* "alter table"
          <<"c","r","e","a","t","e"," ","t","a","b","l","e">>,  \* "create table"
          <<"m","i","g","r","a","t","i","o","n">>,              \* "migration"
          <<"s","c","h","e","m","a">>                           \* "schema"
      >>,
      config |-> <<
          <<"c","o","n","f","i","g">>,                          \* "config"
          <<"s","e","t","t","i","n","g","s">>,                  \* "settings"
          <<".","e","n","v">>,                                  \* ".env"
          <<"c","r","e","d","e","n","t","i","a","l","s">>       \* "credentials"
      >>,
      external |-> <<
          <<"h","t","t","p">>,                                  \* "http"
          <<"a","p","i">>,                                      \* "api"
          <<"w","e","b","h","o","o","k">>                       \* "webhook"
      >>,
      files |-> <<
          <<"w","r","i","t","e">>,                              \* "write"
          <<"e","d","i","t">>,                                  \* "edit"
          <<"m","o","v","e">>,                                  \* "move"
          <<"c","o","p","y">>                                   \* "copy"
      >>,
      install |-> <<
          <<"n","p","m"," ","i","n","s","t","a","l","l">>,      \* "npm install"
          <<"p","i","p"," ","i","n","s","t","a","l","l">>,      \* "pip install"
          <<"a","p","t"," ","i","n","s","t","a","l","l">>       \* "apt install"
      >>,
      read |-> <<
          <<"r","e","a","d">>,                                  \* "read"
          <<"c","a","t">>,                                      \* "cat"
          <<"l","s">>,                                          \* "ls"
          <<"g","r","e","p">>,                                  \* "grep"
          <<"s","e","a","r","c","h">>                           \* "search"
      >>,
      test |-> <<
          <<"t","e","s","t">>,                                  \* "test"
          <<"p","y","t","e","s","t">>,                          \* "pytest"
          <<"j","e","s","t">>,                                  \* "jest"
          <<"s","p","e","c">>                                   \* "spec"
      >> ]

\* In hundredths.
risk_weights ==
    [ destructive |-> 100, system |-> 95, network |-> 90,
      database |-> 70, config |-> 60, external |-> 60,
      files |-> 40, install |-> 30,
      read |-> 10, test |-> 10 ]

\* for keyword in keywords: if keyword in request_str
AnyKeywordIn(category, request_str) ==
    \E k \in 1..Len(risk_indicators[category]) :
        Contains(request_str, risk_indicators[category][k])

Max(a, b) == IF a >= b THEN a ELSE b
Min(a, b) == IF a <= b THEN a ELSE b

\* The loop over risk_indicators.items(), from category i on.
RECURSIVE RiskLoop(_, _, _)
RiskLoop(request_str, i, max_risk) ==
    IF i > Len(risk_categories) THEN max_risk
    ELSE RiskLoop(request_str, i + 1,
                  IF AnyKeywordIn(risk_categories[i], request_str)
                  THEN Max(max_risk, risk_weights[risk_categories[i]])
                  ELSE max_risk)

\* Mutant: the weights of the matching categories add up.
RECURSIVE RiskLoopSum(_, _, _)
RiskLoopSum(request_str, i, max_risk) ==
    IF i > Len(risk_categories) THEN max_risk
    ELSE RiskLoopSum(request_str, i + 1,
                     IF AnyKeywordIn(risk_categories[i], request_str)
                     THEN max_risk + risk_weights[risk_categories[i]]
                     ELSE max_risk)

_assess_risk_sum(request_data) == RiskLoopSum(lower(json_dumps(request_data)), 1, 0)

\* The requests callers pass.
PolicyTools == {"bash", "read", "edit"}
PolicyCommands ==
    {"rm -rf /", "curl -X DELETE", "cat delete.me", "npm install", "sudo chown",
     "wget", "migration", ".env", "true", "main.py"}
PolicyRequests ==
    {Dict(t, "command", c) : t \in PolicyTools, c \in PolicyCommands}
        \cup {Dict("read", "file", "main.py"), Str("ls")}

\* _assess_risk is a pure function of the request: its value for each request,
\* computed once.
RiskOf == [request_data \in PolicyRequests |-> RiskLoop(lower(json_dumps(request_data)), 1, 0)]

\* The risk score of a request, in hundredths.
_assess_risk(request_data) == RiskOf[request_data]

-----------------------------------------------------------------------------
(* Configuration: table manager_config *)

AutonomyLevels == {"conservative", "balanced", "aggressive"}

valid_models ==
    {"gpt-4o", "gpt-4-turbo", "gpt-4", "claude-3.5-sonnet", "claude-3-opus",
     "claude-3-sonnet", "o1-preview", "o1-mini"}

get_autonomy_level ==
    IF config.autonomy_level # None THEN config.autonomy_level ELSE "balanced"

get_evaluation_model ==
    IF config.evaluation_model # None THEN config.evaluation_model
    ELSE "claude-3.5-sonnet"

Call(op, args, raised, ret) == [op |-> op, args |-> args, raised |-> raised, ret |-> ret]

\* Mutant: the level is stored without being validated.
set_autonomy_level_unchecked(level) ==
    /\ config' = [config EXCEPT !.autonomy_level = level]
    /\ last' = Call("set_autonomy_level", [level |-> level], None, None)
    /\ UNCHANGED <<approval_queue, inflight, agents, notes, decisions, logs, now>>

set_autonomy_level(level) ==
    IF level \notin AutonomyLevels
    THEN /\ last' = Call("set_autonomy_level", [level |-> level], "ValueError", None)
         /\ UNCHANGED <<approval_queue, inflight, agents, notes, decisions, logs, config, now>>
    ELSE /\ config' = [config EXCEPT !.autonomy_level = level]
         /\ last' = Call("set_autonomy_level", [level |-> level], None, None)
         /\ UNCHANGED <<approval_queue, inflight, agents, notes, decisions, logs, now>>

set_evaluation_model(model) ==
    IF model \notin valid_models
    THEN /\ last' = Call("set_evaluation_model", [model |-> model], "ValueError", None)
         /\ UNCHANGED <<approval_queue, inflight, agents, notes, decisions, logs, config, now>>
    ELSE /\ config' = [config EXCEPT !.evaluation_model = model]
         /\ last' = Call("set_evaluation_model", [model |-> model], None, None)
         /\ UNCHANGED <<approval_queue, inflight, agents, notes, decisions, logs, now>>

-----------------------------------------------------------------------------
(* Escalation Policy: ManagerDaemon.should_escalate *)

\* In hundredths.
\* Mutant: the escalate percentages of the conservative and the aggressive
\* posture are exchanged.
thresholds_exchanged ==
    [ conservative |-> [confidence_threshold |-> 80, risk_threshold |-> 30,
                        escalate_percentage |-> 20],
      balanced     |-> [confidence_threshold |-> 60, risk_threshold |-> 50,
                        escalate_percentage |-> 40],
      aggressive   |-> [confidence_threshold |-> 40, risk_threshold |-> 70,
                        escalate_percentage |-> 70] ]

thresholds ==
    [ conservative |-> [confidence_threshold |-> 80, risk_threshold |-> 30,
                        escalate_percentage |-> 70],
      balanced     |-> [confidence_threshold |-> 60, risk_threshold |-> 50,
                        escalate_percentage |-> 40],
      aggressive   |-> [confidence_threshold |-> 40, risk_threshold |-> 70,
                        escalate_percentage |-> 20] ]

\* Mutant: the risk test is missing.
escalate_decision_no_risk(cfg, risk_score, confidence_score, r) ==
    IF FracLess(confidence_score, Hundredths(cfg.confidence_threshold)) THEN TRUE
    ELSE IF r.n * 100 * confidence_score.d
              < cfg.escalate_percentage * (confidence_score.d - confidence_score.n) * r.d
    THEN TRUE
    ELSE FALSE

\* Mutant: the confidence test is missing.
escalate_decision_no_confidence(cfg, risk_score, confidence_score, r) ==
    IF risk_score > cfg.risk_threshold THEN TRUE
    ELSE IF r.n * 100 * confidence_score.d
              < cfg.escalate_percentage * (confidence_score.d - confidence_score.n) * r.d
    THEN TRUE
    ELSE FALSE

\* The decision logic of should_escalate; confidence_score and the random
\* draw r are fractions, risk_score is in hundredths.
escalate_decision(cfg, risk_score, confidence_score, r) ==
    IF risk_score > cfg.risk_threshold THEN TRUE
    ELSE IF FracLess(confidence_score, Hundredths(cfg.confidence_threshold)) THEN TRUE
    ELSE IF r.n * 100 * confidence_score.d
              < cfg.escalate_percentage * (confidence_score.d - confidence_score.n) * r.d
    THEN TRUE
    ELSE FALSE

\* r is the value random.random() returns if it is called.
should_escalate(request_data, confidence_score, r) ==
    escalate_decision(thresholds[get_autonomy_level], _assess_risk(request_data),
                      confidence_score, r)

-----------------------------------------------------------------------------
(* Tables *)

\* The tokens the id generator yields.
AgentIds == {"a1", "a2"}

AgentIdSet == {agents[i].id : i \in 1..Len(agents)}

\* The agents row with this id (id is the primary key), as a set.
AgentRows(agent_id) == {agents[i] : i \in {j \in 1..Len(agents) : agents[j].id = agent_id}}

\* A Python dict is the set of its <<key, value>> items; a parameter that
\* may be None instead wraps it.
PyNone == [none |-> TRUE, items |-> {}]
PyDict(items) == [none |-> FALSE, items |-> items]

\* "if metadata": None and the empty dict are falsy
Truthy(metadata) == ~metadata.none /\ metadata.items # {}

\* A TEXT column holding JSON, or NULL.
SqlNull == [null |-> TRUE, json |-> {}]
JsonText(items) == [null |-> FALSE, json |-> items]

\* json.loads(log[7]) if log[7] else None
json_loads(column) == IF column.null THEN PyNone ELSE PyDict(column.json)

\* json.dumps(request_data) and json.dumps(request_data, indent=2), as text
json_dumps_text(request_data) ==
    IF request_data.py = "dict"
    THEN "{\"tool\": \"" \o request_data.tool \o "\", \"" \o request_data.key
             \o "\": \"" \o request_data.value \o "\"}"
    ELSE "\"" \o request_data.value \o "\""

json_dumps_indent2(request_data) ==
    IF request_data.py = "dict"
    THEN "{\n  \"tool\": \"" \o request_data.tool \o "\",\n  \"" \o request_data.key
             \o "\": \"" \o request_data.value \o "\"\n}"
    ELSE "\"" \o request_data.value \o "\""

\* str.upper() on the decisions callers pass
upper ==
    ("approve" :> "APPROVE") @@ ("deny" :> "DENY") @@ ("escalate" :> "ESCALATE")

\* f"session_{int(time.time())}"
SynthSession == "session_" \o ToString(now)

-----------------------------------------------------------------------------
(* Interaction Log: ManagerDaemon.log_interaction *)

\* The table after one INSERT INTO interaction_logs made when the clock shows
\* `clock` (timestamp defaults to CURRENT_TIMESTAMP).
LogInsertAt(table, clock, agent_id, session_id, interaction_type, direction, content, metadata) ==
    Append(table,
           [id |-> Len(table) + 1,
            agent_id |-> agent_id,
            session_id |-> session_id,
            interaction_type |-> interaction_type,
            direction |-> direction,
            content |-> content,
            metadata |-> IF Truthy(metadata) THEN JsonText(metadata.items) ELSE SqlNull,
            timestamp |-> clock])

LogInsert(table, agent_id, session_id, interaction_type, direction, content, metadata) ==
    LogInsertAt(table, now, agent_id, session_id, interaction_type, direction, content,
                metadata)

log_interaction(agent_id, session_id, interaction_type, direction, content, metadata) ==
    /\ logs' = LogInsert(logs, agent_id, session_id, interaction_type, direction,
                         content, metadata)
    /\ last' = Call("log_interaction",
                    [agent_id |-> agent_id, session_id |-> session_id,
                     interaction_type |-> interaction_type, direction |-> direction,
                     content |-> content, metadata |-> metadata],
                    None, None)
    /\ UNCHANGED <<approval_queue, inflight, agents, notes, decisions, config, now>>

-----------------------------------------------------------------------------
(* Agent Registry: ManagerDaemon.spawn_agent *)

\* str.strip() on the task descriptions callers pass
strip == ("" :> "") @@ ("  " :> "") @@ ("Fix bug" :> "Fix bug") @@ ("Add tests" :> "Add tests")

\* The content of TASK_MEMORY.md: the fields it is formatted from.
TaskMemory(agent_id, task_description, repo_path, priority, budget) ==
    [agent_id |-> agent_id, created |-> now, priority |-> priority, budget |-> budget,
     repo_path |-> repo_path, task_description |-> task_description]

\* Mutant: the task note is written before the task description is looked at.
spawn_agent_note_first(agent_id, task_description, repo_path, priority, budget) ==
    /\ notes' = (agent_id :> [agent_id |-> agent_id, created |-> now,
                               priority |-> priority, budget |-> budget,
                               repo_path |-> repo_path,
                               task_description |-> task_description]) @@ notes
    /\ last' = [op |-> "spawn_agent",
                args |-> [task_description |-> task_description, repo_path |-> repo_path,
                          priority |-> priority, budget |-> budget],
                raised |-> IF task_description = None THEN "TypeError" ELSE "ValueError",
                ret |-> None]
    /\ UNCHANGED <<approval_queue, inflight, agents, decisions, logs, config, now>>

\* The arguments of a spawn_agent call.
SpawnArgs(task_description, repo_path, priority, budget) ==
    [task_description |-> task_description, repo_path |-> repo_path,
     priority |-> priority, budget |-> budget]

\* agent_id is the token uuid4 yields: nothing keeps it from being one in use.
spawn_agent(agent_id, task_description, repo_path, priority, budget) ==
    IF task_description = None
    THEN /\ last' = Call("spawn_agent", SpawnArgs(task_description, repo_path, priority, budget),
                         "TypeError", None)
         /\ UNCHANGED <<approval_queue, inflight, agents, notes, decisions, logs, config, now>>
    ELSE IF task_description = "" \/ strip[task_description] = ""
    THEN /\ last' = Call("spawn_agent", SpawnArgs(task_description, repo_path, priority, budget),
                         "ValueError", None)
         /\ UNCHANGED <<approval_queue, inflight, agents, notes, decisions, logs, config, now>>
    ELSE /\ notes' = (agent_id :> TaskMemory(agent_id, task_description, repo_path,
                                              priority, budget)) @@ notes
         /\ IF agent_id \in AgentIdSet
            THEN \* INSERT fails on the primary key
                 /\ last' = Call("spawn_agent", SpawnArgs(task_description, repo_path, priority, budget),
                                 "IntegrityError", None)
                 /\ UNCHANGED <<approval_queue, inflight, agents, decisions, logs, config, now>>
            ELSE /\ agents' = Append(agents,
                        [id |-> agent_id, task_description |-> task_description,
                         repo_path |-> repo_path, status |-> "active",
                         created_at |-> now, priority |-> priority, budget |-> budget])
                 /\ logs' = LogInsert(logs, agent_id, SynthSession, "system_event", "system",
                                      "Agent spawned for task: " \o task_description,
                                      PyDict({<<"repo_path", repo_path>>,
                                              <<"priority", priority>>,
                                              <<"budget", budget>>,
                                              <<"agent_dir", "agents/" \o agent_id>>}))
                 /\ last' = Call("spawn_agent", SpawnArgs(task_description, repo_path, priority, budget),
                                 None, <<agent_id, SynthSession>>)
                 /\ UNCHANGED <<approval_queue, inflight, decisions, config, now>>

-----------------------------------------------------------------------------
(* Confidence Estimator: ManagerDaemon.calculate_confidence_score *)

\* WHERE user_feedback IS NOT NULL AND created_at > datetime('now', '-30 days')
FeedbackRows(table, clock) ==
    SelectSeq(table, LAMBDA d : d.user_feedback # None /\ d.created_at > clock - ThirtyDays)

Clamp01(x) ==
    IF x.n < 0 THEN Frac(0, 1) ELSE IF x.n > x.d THEN Frac(1, 1) ELSE x

\* Mutant: decisions without feedback are counted too.
confidence_of_all_rows(table, clock) ==
    LET rows == table
        total == Len(rows)
        correct == Len(SelectSeq(rows, LAMBDA d : d.user_feedback = "correct"))
        sum_confidence == SeqSum([i \in 1..Len(rows) |-> rows[i].confidence_score])
    IN  IF total = 0 THEN Frac(1, 2)
        ELSE IF sum_confidence = 0
        THEN Clamp01(Frac(14 * correct + 3 * total, 20 * total))
        ELSE Clamp01(Frac(700 * correct + 3 * sum_confidence, 1000 * total))

\* The score over a decisions table at a clock value:
\*   accuracy * 0.7 + (avg_confidence or 0.5) * 0.3
\* with accuracy = correct / total and avg_confidence = sum / (100 * total);
\* "avg_confidence or 0.5" is 0.5 when AVG is NULL or 0.0, and AVG is never
\* NULL here (confidence_score is NOT NULL and total > 0).
confidence_of(table, clock) ==
    LET rows == FeedbackRows(table, clock)
        total == Len(rows)
        correct == Len(SelectSeq(rows, LAMBDA d : d.user_feedback = "correct"))
        sum_confidence == SeqSum([i \in 1..Len(rows) |-> rows[i].confidence_score])
    IN  IF total = 0 THEN Frac(1, 2)
        ELSE IF sum_confidence = 0
        THEN Clamp01(Frac(14 * correct + 3 * total, 20 * total))
        ELSE Clamp01(Frac(700 * correct + 3 * sum_confidence, 1000 * total))

calculate_confidence_score == confidence_of(decisions, now)

-----------------------------------------------------------------------------
(* Decision Store: record_decision, provide_feedback, get_decision_history *)

\* The table after the INSERT INTO manager_decisions.
DecisionInsert(table, agent_id, request_data, decision, confidence_score, model_used) ==
    Append(table,
           [id |-> Len(table) + 1,
            agent_id |-> agent_id,
            request_data |-> json_dumps_text(request_data),
            decision |-> decision,
            confidence_score |-> confidence_score,
            autonomy_level |-> get_autonomy_level,
            model_used |-> model_used,
            user_feedback |-> None,
            created_at |-> now])

\* if not session_id: session_id = f"session_{int(time.time())}"
SessionOrSynth(session_id) ==
    IF session_id = None \/ session_id = "" THEN SynthSession ELSE session_id

\* Mutant: each of the two log calls makes up its own session id when none is given.
RecordLogsOwnSession(table, agent_id, request_data, decision, confidence_score, model_used, session_id) ==
    LogInsert(
        LogInsert(table, agent_id, SessionOrSynth(session_id), "agent_request",
                  "agent_to_manager", json_dumps_indent2(request_data),
                  PyDict({<<"tool", GetTool(request_data)>>,
                          <<"risk_assessment", "pending">>})),
        agent_id,
        IF session_id = None \/ session_id = "" THEN SynthSession \o "_2" ELSE session_id,
        "manager_response", "manager_to_agent",
        "Decision: " \o upper[decision],
        PyDict({<<"confidence_score", confidence_score>>,
                <<"autonomy_level", get_autonomy_level>>,
                <<"model_used", model_used>>,
                <<"decision_reasoning",
                  [Confidence |-> confidence_score, Autonomy |-> get_autonomy_level]>>}))

\* The interaction log after the two log_interaction calls of record_decision.
RecordLogs(table, agent_id, request_data, decision, confidence_score, model_used, session_id) ==
    LogInsert(
        LogInsert(table, agent_id, SessionOrSynth(session_id), "agent_request",
                  "agent_to_manager", json_dumps_indent2(request_data),
                  PyDict({<<"tool", GetTool(request_data)>>,
                          <<"risk_assessment", "pending">>})),
        agent_id, SessionOrSynth(session_id), "manager_response", "manager_to_agent",
        "Decision: " \o upper[decision],
        PyDict({<<"confidence_score", confidence_score>>,
                <<"autonomy_level", get_autonomy_level>>,
                <<"model_used", model_used>>,
                <<"decision_reasoning",
                  [Confidence |-> confidence_score, Autonomy |-> get_autonomy_level]>>}))

\* The Decision row is committed before request_data.get("tool") is evaluated:
\* a request that is no dict raises after the row is stored and before any log.
record_decision(agent_id, request_data, decision, confidence_score, model_used, session_id) ==
    LET args == [agent_id |-> agent_id, request_data |-> request_data,
                 decision |-> decision, confidence_score |-> confidence_score,
                 model_used |-> model_used, session_id |-> session_id]
    IN  /\ decisions' = DecisionInsert(decisions, agent_id, request_data, decision,
                                       confidence_score, model_used)
        /\ IF HasGet(request_data)
           THEN /\ logs' = RecordLogs(logs, agent_id, request_data, decision,
                                      confidence_score, model_used, session_id)
                /\ last' = Call("record_decision", args, None, None)
           ELSE /\ logs' = logs
                /\ last' = Call("record_decision", args, "AttributeError", None)
        /\ UNCHANGED <<approval_queue, inflight, agents, notes, config, now>>

\* Mutant: the feedback is written to every row.
FeedbackUpdateAll(table, decision_id, feedback) ==
    [i \in 1..Len(table) |-> [table[i] EXCEPT !.user_feedback = feedback]]

\* UPDATE manager_decisions SET user_feedback = ? WHERE id = ?
FeedbackUpdate(table, decision_id, feedback) ==
    [i \in 1..Len(table) |->
        IF table[i].id = decision_id
        THEN [table[i] EXCEPT !.user_feedback = feedback]
        ELSE table[i]]

\* Mutant: the value is checked only after the UPDATE was committed.
provide_feedback_checked_late(decision_id, feedback) ==
    LET args == [decision_id |-> decision_id, feedback |-> feedback]
    IN  /\ decisions' = [i \in 1..Len(decisions) |->
                            IF decisions[i].id = decision_id
                            THEN [decisions[i] EXCEPT !.user_feedback = feedback]
                            ELSE decisions[i]]
        /\ last' = Call("provide_feedback", args,
                        IF feedback \notin {"correct", "incorrect"}
                        THEN "ValueError" ELSE None, None)
        /\ UNCHANGED <<approval_queue, inflight, agents, notes, logs, config, now>>

provide_feedback(decision_id, feedback) ==
    LET args == [decision_id |-> decision_id, feedback |-> feedback]
    IN  IF feedback \notin {"correct", "incorrect"}
        THEN /\ last' = Call("provide_feedback", args, "ValueError", None)
             /\ UNCHANGED <<approval_queue, inflight, agents, notes, decisions, logs, config, now>>
        ELSE /\ decisions' = FeedbackUpdate(decisions, decision_id, feedback)
             /\ last' = Call("provide_feedback", args, None, None)
             /\ UNCHANGED <<approval_queue, inflight, agents, notes, logs, config, now>>

\* FROM manager_decisions md JOIN agents a ON md.agent_id = a.id
JoinAgents(table) ==
    LET joined == SelectSeq(table, LAMBDA d : d.agent_id \in AgentIdSet)
    IN  [i \in 1..Len(joined) |->
            [id |-> joined[i].id,
             agent_id |-> joined[i].agent_id,
             task_description |->
                 (CHOOSE a \in AgentRows(joined[i].agent_id) : TRUE).task_description,
             decision |-> joined[i].decision,
             confidence_score |-> joined[i].confidence_score,
             autonomy_level |-> joined[i].autonomy_level,
             model_used |-> joined[i].model_used,
             user_feedback |-> joined[i].user_feedback,
             created_at |-> joined[i].created_at]]

\* ORDER BY created_at DESC: rows with equal created_at stay in rowid order,
\* as SQLite's sorter leaves them.
RECURSIVE OrderByCreatedAtDesc(_)
OrderByCreatedAtDesc(rows) ==
    IF rows = <<>> THEN <<>>
    ELSE LET newest == SetMax({rows[i].created_at : i \in 1..Len(rows)})
         IN  SelectSeq(rows, LAMBDA d : d.created_at = newest)
                 \o OrderByCreatedAtDesc(SelectSeq(rows, LAMBDA d : d.created_at # newest))

\* LIMIT ?: a negative limit is no limit
Limit(rows, limit) == IF limit < 0 THEN rows ELSE SubSeq(rows, 1, Min(limit, Len(rows)))

get_decision_history(limit) == Limit(OrderByCreatedAtDesc(JoinAgents(decisions)), limit)

-----------------------------------------------------------------------------
(* Agent Registry: get_active_agents *)

\* SELECT id, task_description, repo_path, status, priority, created_at
\* FROM agents WHERE status = 'active'
get_active_agents ==
    LET active == SelectSeq(agents, LAMBDA a : a.status = "active")
    IN  [i \in 1..Len(active) |->
            [id |-> active[i].id,
             task_description |-> active[i].task_description,
             repo_path |-> active[i].repo_path,
             status |-> active[i].status,
             priority |-> active[i].priority,
             created_at |-> active[i].created_at]]

-----------------------------------------------------------------------------
(* Interaction Log: get_agent_logs, get_agent_sessions *)

\* "if agent_id:" and the like: None and the empty string are falsy
Supplied(filter) == filter # None /\ filter # ""

\* The limit parameter: None, or an integer.
NoLimit == [none |-> TRUE, value |-> 0]
LimitOf(n) == [none |-> FALSE, value |-> n]

\* "if limit:": None and 0 are falsy
SuppliedLimit(limit) == ~limit.none /\ limit.value # 0

\* FROM interaction_logs il JOIN agents a ON il.agent_id = a.id
JoinLogAgents(table) ==
    LET joined == SelectSeq(table, LAMBDA l : l.agent_id \in AgentIdSet)
    IN  [i \in 1..Len(joined) |->
            [id |-> joined[i].id,
             agent_id |-> joined[i].agent_id,
             task_description |->
                 (CHOOSE a \in AgentRows(joined[i].agent_id) : TRUE).task_description,
             session_id |-> joined[i].session_id,
             interaction_type |-> joined[i].interaction_type,
             direction |-> joined[i].direction,
             content |-> joined[i].content,
             metadata |-> joined[i].metadata,
             timestamp |-> joined[i].timestamp]]

\* ORDER BY il.timestamp ASC: rows with equal timestamp stay in rowid order,
\* as SQLite's sorter leaves them.
RECURSIVE OrderByTimestampAsc(_)
OrderByTimestampAsc(rows) ==
    IF rows = <<>> THEN <<>>
    ELSE LET oldest == -SetMax({-rows[i].timestamp : i \in 1..Len(rows)})
         IN  SelectSeq(rows, LAMBDA l : l.timestamp = oldest)
                 \o OrderByTimestampAsc(SelectSeq(rows, LAMBDA l : l.timestamp # oldest))

get_agent_logs(agent_id, session_id, limit, interaction_type) ==
    LET where == SelectSeq(JoinLogAgents(logs),
                     LAMBDA l : /\ Supplied(agent_id) => l.agent_id = agent_id
                                /\ Supplied(session_id) => l.session_id = session_id
                                /\ Supplied(interaction_type)
                                      => l.interaction_type = interaction_type)
        ordered == OrderByTimestampAsc(where)
    IN  IF SuppliedLimit(limit) THEN Limit(ordered, limit.value) ELSE ordered

\* The binary collation of the session ids in use: "s1" < "s2" < "session_<n>"
\* (two synthesized ids of one agent never have the same first timestamp).
SessionCollation(session_id) ==
    IF session_id = "" THEN 0
    ELSE IF session_id = "s1" THEN 1
    ELSE IF session_id = "s2" THEN 2
    ELSE 3

\* One group of GROUP BY session_id:
\* session_id, MIN(timestamp), MAX(timestamp), COUNT(*)
SessionGroup(rows, session_id) ==
    LET times == {rows[i].timestamp : i \in {j \in 1..Len(rows) : rows[j].session_id = session_id}}
    IN  [session_id |-> session_id,
         start_time |-> -SetMax({-t : t \in times}),
         end_time |-> SetMax(times),
         interaction_count |->
             Cardinality({i \in 1..Len(rows) : rows[i].session_id = session_id})]

\* ORDER BY start_time DESC: groups with equal start_time come out with the
\* greater session_id first, as SQLite's sorter leaves the grouped rows.
RECURSIVE OrderByStartTimeDesc(_)
OrderByStartTimeDesc(groups) ==
    IF groups = {} THEN <<>>
    ELSE LET latest == SetMax({g.start_time : g \in groups})
             ties == {g \in groups : g.start_time = latest}
             first == CHOOSE g \in ties :
                         \A h \in ties : SessionCollation(h.session_id)
                                             <= SessionCollation(g.session_id)
         IN  <<first>> \o OrderByStartTimeDesc(groups \ {first})

\* Mutant: the WHERE agent_id = ? is missing.
get_agent_sessions_of_all(agent_id) ==
    OrderByStartTimeDesc({SessionGroup(logs, logs[i].session_id) : i \in 1..Len(logs)})

\* FROM interaction_logs WHERE agent_id = ? GROUP BY session_id
get_agent_sessions(agent_id) ==
    LET rows == SelectSeq(logs, LAMBDA l : l.agent_id = agent_id)
    IN  OrderByStartTimeDesc({SessionGroup(rows, rows[i].session_id) : i \in 1..Len(rows)})

-----------------------------------------------------------------------------
(* Approval queue: ManagerDaemon.get_approval_queue *)

\* One row of table approval_queue.
QueueRow(id, agent_id, request_type, request_data, created_at) ==
    [id |-> id, agent_id |-> agent_id, request_type |-> request_type,
     request_data |-> request_data, created_at |-> created_at]

\* ORDER BY aq.created_at: rows with equal created_at stay in rowid order.
RECURSIVE OrderByCreatedAt(_)
OrderByCreatedAt(rows) ==
    IF rows = <<>> THEN <<>>
    ELSE LET oldest == -SetMax({-rows[i].created_at : i \in 1..Len(rows)})
         IN  SelectSeq(rows, LAMBDA q : q.created_at = oldest)
                 \o OrderByCreatedAt(SelectSeq(rows, LAMBDA q : q.created_at # oldest))

\* FROM approval_queue aq JOIN agents a ON aq.agent_id = a.id
get_approval_queue ==
    LET joined == SelectSeq(approval_queue, LAMBDA q : q.agent_id \in AgentIdSet)
    IN  OrderByCreatedAt(
            [i \in 1..Len(joined) |->
                [id |-> joined[i].id,
                 agent_id |-> joined[i].agent_id,
                 request_type |-> joined[i].request_type,
                 request_data |-> joined[i].request_data,
                 created_at |-> joined[i].created_at,
                 task_description |->
                     (CHOOSE a \in AgentRows(joined[i].agent_id) : TRUE).task_description]])

-----------------------------------------------------------------------------
(* Interaction Log: ManagerDaemon.search_logs *)

\* The glyphs the synthetic agent outputs start with (U+2705 and U+23F8),
\* each one character of the content.
CheckMark == "[check]"
PauseMark == "[pause]"

\* The characters of the entry contents the facade stores, of the task
\* descriptions and of the search terms callers pass.
ContentChars ==
       ("working" :>
            <<"w","o","r","k","i","n","g">>)
    @@ ("may I?" :>
            <<"m","a","y"," ","I","?">>)
    @@ ("Agent spawned for task: Fix bug" :>
            <<"A","g","e","n","t"," ","s","p","a","w","n","e","d"," ","f","o","r"," ","t",
              "a","s","k",":"," ","F","i","x"," ","b","u","g">>)
    @@ ("{\n  \"tool\": \"read\",\n  \"file\": \"main.py\"\n}" :>
            <<"{","\n"," "," ","\"","t","o","o","l","\"",":"," ","\"","r","e","a","d","\"",
              ",","\n"," "," ","\"","f","i","l","e","\"",":"," ","\"","m","a","i","n",".",
              "p","y","\"","\n","}">>)
    @@ ("{\n  \"tool\": \"bash\",\n  \"command\": \"rm -rf /\"\n}" :>
            <<"{","\n"," "," ","\"","t","o","o","l","\"",":"," ","\"","b","a","s","h","\"",
              ",","\n"," "," ","\"","c","o","m","m","a","n","d","\"",":"," ","\"","r","m",
              " ","-","r","f"," ","/","\"","\n","}">>)
    @@ ("Decision: APPROVE" :>
            <<"D","e","c","i","s","i","o","n",":"," ","A","P","P","R","O","V","E">>)
    @@ ("Decision: DENY" :>
            <<"D","e","c","i","s","i","o","n",":"," ","D","E","N","Y">>)
    @@ ("Decision: ESCALATE" :>
            <<"D","e","c","i","s","i","o","n",":"," ","E","S","C","A","L","A","T","E">>)
    @@ ("Executing read operation..." :>
            <<"E","x","e","c","u","t","i","n","g"," ","r","e","a","d"," ","o","p","e","r",
              "a","t","i","o","n",".",".",".">>)
    @@ ("[check] read operation completed successfully" :>
            <<"[check]"," ","r","e","a","d"," ","o","p","e","r","a","t","i","o","n"," ","c",
              "o","m","p","l","e","t","e","d"," ","s","u","c","c","e","s","s","f","u","l",
              "l","y">>)
    @@ ("[pause] Waiting for user approval for read operation" :>
            <<"[pause]"," ","W","a","i","t","i","n","g"," ","f","o","r"," ","u","s","e","r",
              " ","a","p","p","r","o","v","a","l"," ","f","o","r"," ","r","e","a","d"," ",
              "o","p","e","r","a","t","i","o","n">>)
    @@ ("Executing bash operation..." :>
            <<"E","x","e","c","u","t","i","n","g"," ","b","a","s","h"," ","o","p","e","r",
              "a","t","i","o","n",".",".",".">>)
    @@ ("[check] bash operation completed successfully" :>
            <<"[check]"," ","b","a","s","h"," ","o","p","e","r","a","t","i","o","n"," ","c",
              "o","m","p","l","e","t","e","d"," ","s","u","c","c","e","s","s","f","u","l",
              "l","y">>)
    @@ ("[pause] Waiting for user approval for bash operation" :>
            <<"[pause]"," ","W","a","i","t","i","n","g"," ","f","o","r"," ","u","s","e","r",
              " ","a","p","p","r","o","v","a","l"," ","f","o","r"," ","b","a","s","h"," ",
              "o","p","e","r","a","t","i","o","n">>)
    @@ ("work" :>
            <<"w","o","r","k">>)
    @@ ("WORK" :>
            <<"W","O","R","K">>)
    @@ ("_" :>
            <<"_">>)
    @@ ("%" :>
            <<"%">>)
    @@ ("Fix bug" :> <<"F","i","x"," ","b","u","g">>)
    @@ ("" :> <<>>)

\* One character under SQLite's LIKE: the ASCII letters compare without case.
Fold(c) == lower(<<c>>)[1]

\* text LIKE pattern: '%' matches any run of characters, '_' any one character.
RECURSIVE Like(_, _)
Like(text, pattern) ==
    IF pattern = <<>> THEN text = <<>>
    ELSE IF Head(pattern) = "%"
         THEN Like(text, Tail(pattern)) \/ (text # <<>> /\ Like(Tail(text), pattern))
         ELSE /\ text # <<>>
              /\ Head(pattern) = "_" \/ Fold(Head(pattern)) = Fold(Head(text))
              /\ Like(Tail(text), Tail(pattern))

\* f"%{search_term}%"
LikeParam(search_term) == <<"%">> \o ContentChars[search_term] \o <<"%">>

\* ORDER BY il.timestamp DESC: rows with equal timestamp stay in rowid order.
RECURSIVE OrderByTimestampDesc(_)
OrderByTimestampDesc(rows) ==
    IF rows = <<>> THEN <<>>
    ELSE LET newest == SetMax({rows[i].timestamp : i \in 1..Len(rows)})
         IN  SelectSeq(rows, LAMBDA l : l.timestamp = newest)
                 \o OrderByTimestampDesc(SelectSeq(rows, LAMBDA l : l.timestamp # newest))

\* limit=50
search_logs_limit == 50

search_logs(search_term, agent_id, limit) ==
    LET where == SelectSeq(JoinLogAgents(logs),
                     LAMBDA l : /\ Like(ContentChars[l.content], LikeParam(search_term))
                                /\ Supplied(agent_id) => l.agent_id = agent_id)
    IN  Limit(OrderByTimestampDesc(where), limit)

-----------------------------------------------------------------------------
(* Interaction Log: ManagerDaemon.export_logs *)

\* content.split('\n')
RECURSIVE Split(_, _)
Split(chars, line) ==
    IF chars = <<>> THEN <<line>>
    ELSE IF Head(chars) = "\n" THEN <<line>> \o Split(Tail(chars), <<>>)
    ELSE Split(Tail(chars), Append(line, Head(chars)))

\* The lines of the text export: what each line is, the session or entry it
\* is formatted from, and the characters formatted into it.
Line(kind, session_id, entry, chars) ==
    [kind |-> kind, session_id |-> session_id, entry |-> entry, chars |-> chars]

\* The element f"\n=== SESSION {session_id} ===" is a blank line and the header.
SessionHeader(log) ==
    << Line("blank", None, 0, <<>>),
       Line("session", log.session_id, 0, <<>>),
       Line("task", None, 0, ContentChars[log.task_description]),
       Line("blank", None, 0, <<>>) >>

EntryLines(log) ==
    << Line("entry", None, log.id, <<>>) >>
        \o [i \in 1..Len(Split(ContentChars[log.content], <<>>)) |->
                Line("content", None, log.id, Split(ContentChars[log.content], <<>>)[i])]
        \o (IF ~log.metadata.null THEN << Line("metadata", None, log.id, <<>>) >> ELSE <<>>)
        \o << Line("blank", None, 0, <<>>) >>

\* for log in logs: from entry i on, with current_session as the loop left it.
RECURSIVE TextExport(_, _, _)
TextExport(rows, i, current_session) ==
    IF i > Len(rows) THEN <<>>
    ELSE (IF rows[i].session_id # current_session THEN SessionHeader(rows[i]) ELSE <<>>)
             \o EntryLines(rows[i])
             \o TextExport(rows, i + 1, rows[i].session_id)

JsonExport(rows) ==
    [i \in 1..Len(rows) |->
        [id |-> rows[i].id,
         agent_id |-> rows[i].agent_id,
         task_description |-> rows[i].task_description,
         session_id |-> rows[i].session_id,
         interaction_type |-> rows[i].interaction_type,
         direction |-> rows[i].direction,
         content |-> rows[i].content,
         metadata |-> json_loads(rows[i].metadata),
         timestamp |-> rows[i].timestamp]]

\* The call reads the store and writes nothing; the result is what it raises
\* and the lines (text) or entries (json) it returns.
export_logs(agent_id, format) ==
    LET rows == get_agent_logs(agent_id, None, NoLimit, None)
    IN  IF format = "json"
        THEN [raised |-> None, lines |-> <<>>, entries |-> JsonExport(rows)]
        ELSE IF format = "text"
        THEN [raised |-> None, lines |-> TextExport(rows, 1, None), entries |-> <<>>]
        ELSE [raised |-> "ValueError", lines |-> <<>>, entries |-> <<>>]

-----------------------------------------------------------------------------
(* Simulation: ManagerDaemon.simulate_agent_interaction *)

\* Mutant: the operation is executed whatever the decision is.
SimulateOutputsWhateverDecided(run, agent_id, session_id, request, decision, sleep) ==
    [table |->
         LogInsertAt(
             LogInsertAt(run.table, run.clock, agent_id, session_id, "agent_output",
                         "agent_to_manager",
                         "Executing " \o GetTool(request) \o " operation...",
                         PyDict({<<"operation", GetTool(request)>>,
                                 <<"status", "executing">>})),
             run.clock + sleep, agent_id, session_id, "agent_output",
             "agent_to_manager",
             CheckMark \o " " \o GetTool(request) \o " operation completed successfully",
             PyDict({<<"operation", GetTool(request)>>,
                     <<"status", "completed">>,
                     <<"result", "success">>})),
     clock |-> run.clock + sleep]

\* Mutant: nothing is logged for a request that is escalated.
SimulateOutputsSkipEscalated(run, agent_id, session_id, request, decision, sleep) ==
    IF decision = "approve"
    THEN [table |->
              LogInsertAt(
                  LogInsertAt(run.table, run.clock, agent_id, session_id, "agent_output",
                              "agent_to_manager",
                              "Executing " \o GetTool(request) \o " operation...",
                              PyDict({<<"operation", GetTool(request)>>,
                                      <<"status", "executing">>})),
                  run.clock + sleep, agent_id, session_id, "agent_output",
                  "agent_to_manager",
                  CheckMark \o " " \o GetTool(request) \o " operation completed successfully",
                  PyDict({<<"operation", GetTool(request)>>,
                          <<"status", "completed">>,
                          <<"result", "success">>})),
          clock |-> run.clock + sleep]
    ELSE run

\* The agent's response to the decision: two entries around time.sleep(0.1)
\* when approved, one when escalated.  `sleep` is the number of whole seconds
\* the clock shows more after the sleep than before it (0 or 1).
SimulateOutputs(run, agent_id, session_id, request, decision, sleep) ==
    IF decision = "approve"
    THEN [table |->
              LogInsertAt(
                  LogInsertAt(run.table, run.clock, agent_id, session_id, "agent_output",
                              "agent_to_manager",
                              "Executing " \o GetTool(request) \o " operation...",
                              PyDict({<<"operation", GetTool(request)>>,
                                      <<"status", "executing">>})),
                  run.clock + sleep, agent_id, session_id, "agent_output",
                  "agent_to_manager",
                  CheckMark \o " " \o GetTool(request) \o " operation completed successfully",
                  PyDict({<<"operation", GetTool(request)>>,
                          <<"status", "completed">>,
                          <<"result", "success">>})),
          clock |-> run.clock + sleep]
    ELSE [table |->
              LogInsertAt(run.table, run.clock, agent_id, session_id, "agent_output",
                          "agent_to_manager",
                          PauseMark \o " Waiting for user approval for "
                              \o GetTool(request) \o " operation",
                          PyDict({<<"operation", GetTool(request)>>,
                                  <<"status", "waiting_approval">>})),
          clock |-> run.clock]

\* One pass of the loop body for a request that has .get; r is the value
\* random.random() returns if should_escalate calls it.
SimulateRequest(run, agent_id, session_id, request, sequence, total_requests, r, sleep) ==
    LET risk_score == _assess_risk(request)
        confidence_score == confidence_of(decisions, run.clock)
        decision == IF should_escalate(request, confidence_score, r)
                    THEN "escalate" ELSE "approve"
        requested ==
            LogInsertAt(run.table, run.clock, agent_id, session_id, "agent_request",
                        "agent_to_manager", json_dumps_indent2(request),
                        PyDict({<<"tool", GetTool(request)>>,
                                <<"sequence", sequence>>,
                                <<"total_requests", total_requests>>}))
        answered ==
            LogInsertAt(requested, run.clock, agent_id, session_id, "manager_response",
                        "manager_to_agent", "Decision: " \o upper[decision],
                        PyDict({<<"confidence_score", confidence_score>>,
                                <<"risk_score", risk_score>>,
                                <<"autonomy_level", get_autonomy_level>>,
                                <<"reasoning",
                                  [Risk |-> risk_score, Confidence |-> confidence_score]>>}))
    IN  SimulateOutputs([table |-> answered, clock |-> run.clock], agent_id, session_id,
                        request, decision, sleep)

\* for i, request in enumerate(tool_requests): the loop from request i on.
\* request.get("tool") raises for a request that is no dict, before the
\* request is logged; the entries of the earlier requests stay.
RECURSIVE SimulateLoop(_, _, _, _, _, _, _)
SimulateLoop(run, agent_id, session_id, tool_requests, i, draws, sleeps) ==
    IF i > Len(tool_requests) THEN run
    ELSE IF ~HasGet(tool_requests[i]) THEN run
    ELSE SimulateLoop(SimulateRequest(run, agent_id, session_id, tool_requests[i], i,
                                      Len(tool_requests), draws[i], sleeps[i]),
                      agent_id, session_id, tool_requests, i + 1, draws, sleeps)

\* Mutant: the first request is put into the approval queue.
simulate_agent_interaction_queueing(agent_id, session_id, tool_requests, draws, sleeps) ==
    LET run == SimulateLoop([table |-> logs, clock |-> now], agent_id, session_id,
                            tool_requests, 1, draws, sleeps)
    IN  /\ logs' = run.table
        /\ now' = run.clock
        /\ approval_queue' =
               Append(approval_queue,
                      QueueRow(Len(approval_queue) + 1, agent_id, "tool",
                               json_dumps_text(tool_requests[1]), now))
        /\ last' = Call("simulate_agent_interaction",
                        [agent_id |-> agent_id, session_id |-> session_id,
                         tool_requests |-> tool_requests],
                        IF \E i \in 1..Len(tool_requests) : ~HasGet(tool_requests[i])
                        THEN "AttributeError" ELSE None,
                        None)
        /\ UNCHANGED <<inflight, agents, notes, decisions, config>>

\* Mutant: the verdict on the first request is recorded as a Decision.
simulate_agent_interaction_recording(agent_id, session_id, tool_requests, draws, sleeps) ==
    LET run == SimulateLoop([table |-> logs, clock |-> now], agent_id, session_id,
                            tool_requests, 1, draws, sleeps)
    IN  /\ logs' = run.table
        /\ now' = run.clock
        /\ decisions' = DecisionInsert(decisions, agent_id, tool_requests[1], "escalate",
                                       50, "simulation")
        /\ last' = Call("simulate_agent_interaction",
                        [agent_id |-> agent_id, session_id |-> session_id,
                         tool_requests |-> tool_requests],
                        IF \E i \in 1..Len(tool_requests) : ~HasGet(tool_requests[i])
                        THEN "AttributeError" ELSE None,
                        None)
        /\ UNCHANGED <<approval_queue, inflight, agents, notes, config>>

\* time.sleep(0.1) lets the clock reach the next second while the call runs.
simulate_agent_interaction(agent_id, session_id, tool_requests, draws, sleeps) ==
    LET run == SimulateLoop([table |-> logs, clock |-> now], agent_id, session_id,
                            tool_requests, 1, draws, sleeps)
    IN  /\ logs' = run.table
        /\ now' = run.clock
        /\ last' = Call("simulate_agent_interaction",
                        [agent_id |-> agent_id, session_id |-> session_id,
                         tool_requests |-> tool_requests],
                        IF \E i \in 1..Len(tool_requests) : ~HasGet(tool_requests[i])
                        THEN "AttributeError" ELSE None,
                        None)
        /\ UNCHANGED <<approval_queue, inflight, agents, notes, decisions, config>>

-----------------------------------------------------------------------------
(* The clock *)

Tick(seconds) ==
    /\ now + seconds <= MaxNow
    /\ now' = now + seconds
    /\ last' = Call("clock", [seconds |-> seconds], None, None)
    /\ UNCHANGED <<approval_queue, inflight, agents, notes, decisions, logs, config>>

-----------------------------------------------------------------------------
(* The state machine of the facade *)

Tasks == {None, "", "  ", "Fix bug"}
Priorities == {"normal", "high"}
\* The task and priority of the spawn_agent calls made: a task that is
\* rejected is tried with the default priority only.
SpawnInputs == {in \in Tasks \X Priorities : in[1] = "Fix bug" \/ in[2] = "normal"}
\* The spawn_agent calls made: every input with the first id the generator
\* yields, the high-priority one with the second.
SpawnCalls ==
    {c \in AgentIds \X SpawnInputs :
        (c[1] = "a1" /\ c[2][2] = "normal") \/ (c[1] = "a2" /\ c[2] = <<"Fix bug", "high">>)}
LevelInputs == {"aggressive", "conservative", "reckless"}
ModelInputs == {"o1-mini", "gpt-5"}
FeedbackInputs == {"correct", "incorrect", "bogus"}

\* The request, decision, confidence (in hundredths) and session id of the
\* record_decision calls made.
RecordInputs ==
    { <<Dict("read", "file", "main.py"), "approve", 80, None>>,
      <<Dict("read", "file", "main.py"), "approve", 0, "s1">>,
      <<Dict("read", "file", "main.py"), "escalate", 150, "">>,
      <<Str("ls"), "approve", 80, None>> }

\* The record_decision calls made: every input for the first agent id, the
\* plain one for the others.
RecordCalls ==
    {c \in AgentIds \X RecordInputs :
        c[1] = "a1" \/ c[2] = <<Dict("read", "file", "main.py"), "approve", 80, None>>}

\* The agent, session id, type, content and metadata of the log_interaction
\* calls made: metadata none, an empty map and a non-empty map.
LogInputs ==
    { <<"a1", "s1", "agent_output", "working", PyNone>>,
      <<"a1", "s2", "agent_request", "may I?", PyDict({})>>,
      <<"a2", "s1", "agent_request", "may I?", PyDict({<<"tool", "bash">>})>>,
      <<"a2", "s2", "agent_output", "working", PyNone>> }

\* The request lists of the simulate_agent_interaction calls made: a low-risk
\* and a destructive request, and a list whose second request is no dict.
ReadThenRemove == <<Dict("read", "file", "main.py"), Dict("bash", "command", "rm -rf /")>>
ReadThenText == <<Dict("read", "file", "main.py"), Str("ls")>>

\* The agent, session and request list of each call, with the value
\* random.random() returns for each request and the seconds the clock advances
\* across the time.sleep(0.1) of each request.
SimulateInputs ==
    { <<"a1", "s1", ReadThenRemove, <<Hundredths(50), Hundredths(50)>>, <<0, 0>> >>,
      <<"a1", "s1", ReadThenRemove, <<Hundredths(50), Hundredths(50)>>, <<1, 0>> >>,
      <<"a1", "s1", ReadThenRemove, <<Hundredths(1), Hundredths(50)>>, <<0, 0>> >>,
      <<"a2", "s2", ReadThenText, <<Hundredths(50), Hundredths(50)>>, <<0, 0>> >> }

Init ==
    /\ agents = <<>>
    /\ notes = <<>>
    /\ decisions = <<>>
    /\ logs = <<>>
    /\ config = [autonomy_level |-> None, evaluation_model |-> None]
    /\ now = 0
    /\ last = Call("__init__", [manager_dir |-> None], None, None)
    /\ calls = 0
    /\ approval_queue = <<>>
    /\ inflight = Idle

\* Every step is one call of the facade, or the clock moving on.
Budget == calls < MaxCalls /\ calls' = calls + 1

SpawnAgent ==
    /\ Budget
    /\ \E c \in SpawnCalls : spawn_agent(c[1], c[2][1], "/repo", c[2][2], 100)

SetAutonomyLevel ==
    /\ Budget
    /\ \E level \in LevelInputs : set_autonomy_level(level)

SetEvaluationModel ==
    /\ Budget
    /\ \E model \in ModelInputs : set_evaluation_model(model)

RecordDecision ==
    /\ Budget
    /\ \E c \in RecordCalls :
           record_decision(c[1], c[2][1], c[2][2], c[2][3], "gpt-4o", c[2][4])

ProvideFeedback ==
    /\ Budget
    /\ \E decision_id \in 1..(Len(decisions) + 1), feedback \in FeedbackInputs :
           provide_feedback(decision_id, feedback)

LogInteraction ==
    /\ Budget
    /\ \E in \in LogInputs :
           log_interaction(in[1], in[2], in[3], "agent_to_manager", in[4], in[5])

\* The clock is not advanced beyond MaxNow.
Simulate ==
    /\ Budget
    /\ \E in \in SimulateInputs :
           /\ simulate_agent_interaction(in[1], in[2], in[3], in[4], in[5])
           /\ now' <= MaxNow

ClockTick ==
    /\ Budget
    /\ \E seconds \in {1, ThirtyDays - 1, ThirtyDays} : Tick(seconds)

Next ==
    \/ SpawnAgent
    \/ SetAutonomyLevel
    \/ SetEvaluationModel
    \/ RecordDecision
    \/ ProvideFeedback
    \/ LogInteraction
    \/ Simulate
    \/ ClockTick

Spec == Init /\ [][Next]_vars

-----------------------------------------------------------------------------
(* record_decision statement by statement.  Each statement opens its own   *)
(* connection and commits, so a set_autonomy_level call of another caller  *)
(* on the same store can run between any two of them.                      *)

\* The steps taken, one per statement.
MaxRaceSteps == 6

RaceBudget == calls < MaxRaceSteps /\ calls' = calls + 1

\* INSERT INTO manager_decisions with the posture read by get_autonomy_level();
\* then the session id is chosen.
RecordInsertDecision(agent_id, request_data, decision, confidence_score, model_used, session_id) ==
    LET args == [agent_id |-> agent_id, request_data |-> request_data,
                 decision |-> decision, confidence_score |-> confidence_score,
                 model_used |-> model_used, session_id |-> session_id]
    IN  /\ inflight.pc = "idle"
        /\ decisions' = DecisionInsert(decisions, agent_id, request_data, decision,
                                       confidence_score, model_used)
        /\ IF HasGet(request_data)
           THEN /\ inflight' = [pc |-> "stored", args |-> args,
                                started_under |-> get_autonomy_level,
                                decision_id |-> Len(decisions) + 1,
                                session_id |-> SessionOrSynth(session_id),
                                level_read |-> None]
                /\ UNCHANGED last
           ELSE /\ last' = Call("record_decision", args, "AttributeError", None)
                /\ UNCHANGED inflight
        /\ UNCHANGED <<approval_queue, agents, notes, logs, config, now>>

\* The first log_interaction call: the agent_request entry.
RecordLogRequest ==
    /\ inflight.pc = "stored"
    /\ logs' = LogInsert(logs, inflight.args.agent_id, inflight.session_id,
                         "agent_request", "agent_to_manager",
                         json_dumps_indent2(inflight.args.request_data),
                         PyDict({<<"tool", GetTool(inflight.args.request_data)>>,
                                 <<"risk_assessment", "pending">>}))
    /\ inflight' = [inflight EXCEPT !.pc = "requested"]
    /\ UNCHANGED <<approval_queue, agents, notes, decisions, config, now, last>>

\* "autonomy_level": self.get_autonomy_level() in the metadata of the second
\* log_interaction call.
RecordReadLevel ==
    /\ inflight.pc = "requested"
    /\ inflight' = [inflight EXCEPT !.pc = "read", !.level_read = get_autonomy_level]
    /\ UNCHANGED <<approval_queue, agents, notes, decisions, logs, config, now, last>>

\* get_autonomy_level() for the reasoning string, and the second
\* log_interaction call: the manager_response entry.
RecordLogResponse ==
    /\ inflight.pc = "read"
    /\ logs' = LogInsert(logs, inflight.args.agent_id, inflight.session_id,
                         "manager_response", "manager_to_agent",
                         "Decision: " \o upper[inflight.args.decision],
                         PyDict({<<"confidence_score", inflight.args.confidence_score>>,
                                 <<"autonomy_level", inflight.level_read>>,
                                 <<"model_used", inflight.args.model_used>>,
                                 <<"decision_reasoning",
                                   [Confidence |-> inflight.args.confidence_score,
                                    Autonomy |-> get_autonomy_level]>>}))
    /\ last' = Call("record_decision", inflight.args, None, None)
    /\ inflight' = [inflight EXCEPT !.pc = "idle"]
    /\ UNCHANGED <<approval_queue, agents, notes, decisions, config, now>>

RaceRecordDecision ==
    /\ RaceBudget
    /\ \E c \in RecordCalls :
           RecordInsertDecision(c[1], c[2][1], c[2][2], c[2][3], "gpt-4o", c[2][4])

RaceLogRequest == RaceBudget /\ RecordLogRequest

RaceReadLevel == RaceBudget /\ RecordReadLevel

RaceLogResponse == RaceBudget /\ RecordLogResponse

\* set_autonomy_level called by another caller.
RaceSetAutonomyLevel ==
    /\ RaceBudget
    /\ \E level \in LevelInputs : set_autonomy_level(level)

RaceNext ==
    \/ RaceRecordDecision
    \/ RaceLogRequest
    \/ RaceReadLevel
    \/ RaceLogResponse
    \/ RaceSetAutonomyLevel

RaceSpec == Init /\ [][RaceNext]_vars

-----------------------------------------------------------------------------
(* The pure computations, called with inputs drawn from grids: the Risk    *)
(* Assessor on every request of PolicyRequests, the Escalation Policy on   *)
(* every request, confidence and random draw, one call from each          *)
(* configuration that set_autonomy_level can have left.                    *)

\* Confidence scores in [0, 1] and random draws in [0, 1), as fractions.
Grid == {x \in 0..100 : x % GridStep = 0}
ConfidenceGrid == {Hundredths(x) : x \in Grid}
DrawGrid == {Hundredths(x) : x \in Grid \ {100}}

\* After construction and any number of accepted set_autonomy_level calls.
PolicyInit ==
    /\ agents = <<>>
    /\ notes = <<>>
    /\ decisions = <<>>
    /\ logs = <<>>
    /\ config \in {[autonomy_level |-> level, evaluation_model |-> None] :
                       level \in AutonomyLevels \cup {None}}
    /\ now = 0
    /\ last = Call("__init__", [manager_dir |-> None], None, None)
    /\ calls = 0
    /\ approval_queue = <<>>
    /\ inflight = Idle

OneCall == calls = 0 /\ calls' = 1

AssessRisk ==
    /\ OneCall
    /\ \E request_data \in PolicyRequests :
           /\ last' = Call("_assess_risk", [request_data |-> request_data], None,
                           _assess_risk(request_data))
           /\ UNCHANGED <<approval_queue, inflight, agents, notes, decisions, logs, config, now>>

ShouldEscalate ==
    /\ OneCall
    /\ \E request_data \in PolicyRequests, confidence_score \in ConfidenceGrid,
          r \in DrawGrid :
           /\ last' = Call("should_escalate",
                           [request_data |-> request_data,
                            confidence_score |-> confidence_score, r |-> r],
                           None, should_escalate(request_data, confidence_score, r))
           /\ UNCHANGED <<approval_queue, inflight, agents, notes, decisions, logs, config, now>>

PolicyNext ==
    \/ AssessRisk
    \/ ShouldEscalate

PolicySpec == PolicyInit /\ [][PolicyNext]_vars

-----------------------------------------------------------------------------
(* Claims about the Escalation Policy and the Risk Assessor (PolicySpec)   *)

\* The thresholds the claims name, in hundredths.
ClaimRiskThreshold == [conservative |-> 30, balanced |-> 50, aggressive |-> 70]
ClaimConfidenceThreshold == [conservative |-> 80, balanced |-> 60, aggressive |-> 40]

\* C1: under every posture, a should_escalate call on a request whose risk
\* score is strictly greater than the posture's risk_threshold (0.3 / 0.5 /
\* 0.7) returns true, whatever the confidence in [0,1] and the random draw.
C1_HighRiskAlwaysEscalates ==
    (/\ last.op = "should_escalate"
     /\ _assess_risk(last.args.request_data) > ClaimRiskThreshold[get_autonomy_level])
        => last.ret = TRUE

\* A risky request (1.0) evaluated under the aggressive posture with full
\* confidence and a draw of 0.9 or more: only the risk test can escalate it.
C1_Witness ==
    /\ last.op = "should_escalate"
    /\ get_autonomy_level = "aggressive"
    /\ last.args.request_data = Dict("bash", "command", "rm -rf /")
    /\ last.args.confidence_score = Hundredths(100)
    /\ FracLeq(Hundredths(90), last.args.r)
    /\ last.ret = TRUE

\* C2: under every posture, a should_escalate call with a confidence strictly
\* below the posture's confidence_threshold (0.8 / 0.6 / 0.4) returns true,
\* whatever the request's risk score and the random draw.
C2_LowConfidenceAlwaysEscalates ==
    (/\ last.op = "should_escalate"
     /\ FracLess(last.args.confidence_score,
                 Hundredths(ClaimConfidenceThreshold[get_autonomy_level])))
        => last.ret = TRUE

\* A request of risk 0.0 under the aggressive posture, confidence 0.3 and a
\* draw of 0.9 or more: neither the risk test nor the random step escalates it.
C2_Witness ==
    /\ last.op = "should_escalate"
    /\ get_autonomy_level = "aggressive"
    /\ last.args.request_data = Dict("bash", "command", "true")
    /\ last.args.confidence_score = Hundredths(30)
    /\ FracLeq(Hundredths(90), last.args.r)
    /\ last.ret = TRUE

\* The categories a request matches: one of the category's keywords occurs in
\* the serialized request, letter case ignored.
MatchedCategories(request_data) ==
    {c \in DOMAIN risk_indicators :
        \E k \in 1..Len(risk_indicators[c]) :
            Contains(lower(json_dumps(request_data)), lower(risk_indicators[c][k]))}

ClaimWeights ==
    [ destructive |-> 100, system |-> 95, network |-> 90, database |-> 70,
      config |-> 60, external |-> 60, files |-> 40, install |-> 30,
      read |-> 10, test |-> 10 ]

\* C3: _assess_risk returns the largest weight among the matched categories
\* (never a sum), 0.0 when no keyword occurs; a request matching a destructive
\* and a read keyword scores 1.0; the result is one of 0.0, 0.1, 0.3, 0.4,
\* 0.6, 0.7, 0.9, 0.95, 1.0.
C3_RiskIsMaxMatchedWeight ==
    last.op = "_assess_risk" =>
        LET matched == MatchedCategories(last.args.request_data)
        IN  /\ last.ret = SetMax({ClaimWeights[c] : c \in matched} \cup {0})
            /\ ({"destructive", "read"} \subseteq matched => last.ret = 100)
            /\ last.ret \in {0, 10, 30, 40, 60, 70, 90, 95, 100}

\* "cat delete.me" matches a read keyword (cat) and a destructive one (delete).
C3_Witness ==
    /\ last.op = "_assess_risk"
    /\ last.args.request_data = Dict("bash", "command", "cat delete.me")
    /\ {"destructive", "read"} \subseteq MatchedCategories(last.args.request_data)
    /\ last.ret = 100

-----------------------------------------------------------------------------
(* Claims about the Confidence Estimator (Spec)                            *)

\* C4: when some decision carries feedback and was created within the
\* trailing 30 days, and the stored confidence of each such decision lies in
\* [0,1] (all 0.0 included), confidence_score() equals
\* clamp(0.7 * accuracy + 0.3 * avg_confidence, 0, 1).
C4_ConfidenceFormula ==
    LET rows == FeedbackRows(decisions, now)
        total == Len(rows)
        correct == Cardinality({i \in 1..total : rows[i].user_feedback = "correct"})
        sum == SeqSum([i \in 1..total |-> rows[i].confidence_score])
    IN  (/\ total > 0
         /\ \A i \in 1..total : rows[i].confidence_score \in 0..100)
            => FracEq(calculate_confidence_score,
                      Clamp01(Frac(700 * correct + 3 * sum, 1000 * total)))

\* C5: confidence_score() is exactly 0.5 whenever no decision carries feedback
\* within the trailing 30 days, and a record_decision call never changes the
\* value confidence_score() returns.
C5_NeutralWithoutFeedback ==
    [][/\ FeedbackRows(decisions, now) = <<>>
            => calculate_confidence_score = Frac(1, 2)
       /\ FeedbackRows(decisions', now') = <<>>
            => calculate_confidence_score' = Frac(1, 2)
       /\ last'.op = "record_decision"
            => FracEq(calculate_confidence_score', calculate_confidence_score)]_vars

\* A decision was just recorded while the only decision that carries feedback
\* is older than 30 days: two decisions exist and the score is the default.
C5_Witness ==
    /\ last.op = "record_decision"
    /\ Len(decisions) >= 2
    /\ \E i \in 1..Len(decisions) : decisions[i].user_feedback # None
    /\ FeedbackRows(decisions, now) = <<>>
    /\ calculate_confidence_score = Frac(1, 2)

-----------------------------------------------------------------------------
(* Claims about the stores (Spec)                                          *)

\* C6: every Decision row and every interaction-log entry has the agent_id of
\* an existing agent record.
C6_RowsReferenceAgents ==
    /\ \A i \in 1..Len(decisions) : decisions[i].agent_id \in AgentIdSet
    /\ \A i \in 1..Len(logs) : logs[i].agent_id \in AgentIdSet

\* C7: the confidence_score stored on every Decision row lies in [0.0, 1.0].
C7_StoredConfidenceInUnitInterval ==
    \A i \in 1..Len(decisions) :
        /\ decisions[i].confidence_score >= 0
        /\ decisions[i].confidence_score <= 100

\* The allowed values the claim names.
ClaimLevels == {"conservative", "balanced", "aggressive"}
ClaimModels ==
    {"gpt-4o", "gpt-4-turbo", "gpt-4", "claude-3.5-sonnet", "claude-3-opus",
     "claude-3-sonnet", "o1-preview", "o1-mini"}

\* C8: a set call with a value outside the key's allowed set raises a
\* validation error and leaves the configuration unchanged; an accepted set
\* makes the key's getter return its value and leaves the other key alone; no
\* other step changes the configuration, and a key never set reads as its
\* default (balanced / claude-3.5-sonnet).  The posture is always one of
\* conservative, balanced, aggressive.
C8_ConfigSetGet ==
    [][/\ get_autonomy_level \in ClaimLevels /\ get_autonomy_level' \in ClaimLevels
       /\ config.autonomy_level = None => get_autonomy_level = "balanced"
       /\ config.evaluation_model = None => get_evaluation_model = "claude-3.5-sonnet"
       /\ IF last'.op = "set_autonomy_level"
          THEN IF last'.args.level \in ClaimLevels
               THEN /\ last'.raised = None
                    /\ get_autonomy_level' = last'.args.level
                    /\ config'.evaluation_model = config.evaluation_model
                    /\ get_evaluation_model' = get_evaluation_model
               ELSE /\ last'.raised = "ValueError"
                    /\ config' = config
          ELSE IF last'.op = "set_evaluation_model"
          THEN IF last'.args.model \in ClaimModels
               THEN /\ last'.raised = None
                    /\ get_evaluation_model' = last'.args.model
                    /\ config'.autonomy_level = config.autonomy_level
                    /\ get_autonomy_level' = get_autonomy_level
               ELSE /\ last'.raised = "ValueError"
                    /\ config' = config
          ELSE config' = config]_vars

\* A rejected set_autonomy_level after both keys were set: both keep the
\* values of the accepted calls.
C8_Witness ==
    /\ last.op = "set_autonomy_level"
    /\ last.raised = "ValueError"
    /\ config.autonomy_level = "aggressive"
    /\ get_evaluation_model = "o1-mini"

\* What a record_decision call that returns adds, but for the session id.
RecordAddsOneDecisionTwoLogs ==
    LET n == Len(decisions)
        m == Len(logs)
    IN  /\ Len(decisions') = n + 1
        /\ SubSeq(decisions', 1, n) = decisions
        /\ decisions'[n + 1].agent_id = last'.args.agent_id
        /\ Len(logs') = m + 2
        /\ SubSeq(logs', 1, m) = logs
        /\ logs'[m + 1].agent_id = last'.args.agent_id
        /\ logs'[m + 1].interaction_type = "agent_request"
        /\ logs'[m + 1].direction = "agent_to_manager"
        /\ logs'[m + 2].agent_id = last'.args.agent_id
        /\ logs'[m + 2].interaction_type = "manager_response"
        /\ logs'[m + 2].direction = "manager_to_agent"
        /\ logs'[m + 1].session_id = logs'[m + 2].session_id
        /\ agents' = agents
        /\ notes' = notes
        /\ config' = config

\* C9, as stated: every record_decision call that returns adds one Decision
\* row and two log entries (agent_request, then manager_response) that carry
\* the supplied session_id, or a shared synthesized one when none is supplied.
C9_RecordAddsRowsInSuppliedSession ==
    [][(last'.op = "record_decision" /\ last'.raised = None)
          => /\ RecordAddsOneDecisionTwoLogs
             /\ last'.args.session_id # None
                  => logs'[Len(logs) + 1].session_id = last'.args.session_id]_vars

\* C9, amended: the two entries carry the supplied session_id when it is a
\* non-empty string, and one synthesized session id, shared by both, when it
\* is None or the empty string.
C9_RecordAddsRowsInSession ==
    [][(last'.op = "record_decision" /\ last'.raised = None)
          => /\ RecordAddsOneDecisionTwoLogs
             /\ last'.args.session_id \notin {None, ""}
                  => logs'[Len(logs) + 1].session_id = last'.args.session_id
             /\ last'.args.session_id \in {None, ""}
                  => logs'[Len(logs) + 1].session_id \notin {None, ""}]_vars

\* A call with the empty session id returned: its two entries share the
\* synthesized session id.
C9_Witness ==
    /\ last.op = "record_decision"
    /\ last.raised = None
    /\ last.args.session_id = ""
    /\ Len(logs) >= 2
    /\ logs[Len(logs)].interaction_type = "manager_response"
    /\ logs[Len(logs) - 1].interaction_type = "agent_request"
    /\ logs[Len(logs)].session_id = SynthSession
    /\ logs[Len(logs) - 1].session_id = SynthSession

\* C10: after a provide_feedback call with a valid value on a recorded
\* decision id, get_decision_history (limit at least the number of decisions)
\* has a row for that id whose user_feedback is the value of that call, and
\* confidence_score() counts the decision exactly once.
C10_FeedbackShownAndCounted ==
    (/\ last.op = "provide_feedback"
     /\ last.raised = None
     /\ last.args.feedback \in {"correct", "incorrect"}
     /\ \E i \in 1..Len(decisions) : decisions[i].id = last.args.decision_id)
        => LET history == get_decision_history(Len(decisions))
               counted == FeedbackRows(decisions, now)
           IN  /\ \E i \in 1..Len(history) :
                      /\ history[i].id = last.args.decision_id
                      /\ history[i].user_feedback = last.args.feedback
               /\ Cardinality({i \in 1..Len(counted) :
                                  counted[i].id = last.args.decision_id}) = 1

-----------------------------------------------------------------------------
(* Claims about feedback and the immutability of the stores (Spec)         *)

\* C11: provide_feedback with a feedback value other than correct / incorrect
\* raises a validation error for every decision_id, existing or not, and
\* leaves every Decision row (its user_feedback included) and the value of
\* confidence_score() unchanged.
C11_InvalidFeedbackRejected ==
    [][(/\ last'.op = "provide_feedback"
        /\ last'.args.feedback \notin {"correct", "incorrect"})
          => /\ last'.raised = "ValueError"
             /\ decisions' = decisions
             /\ FracEq(calculate_confidence_score', calculate_confidence_score)]_vars

\* An invalid value was just rejected for a recorded decision that carries
\* feedback from an earlier call, and for an id that was never recorded.
C11_Witness ==
    /\ last.op = "provide_feedback"
    /\ last.raised = "ValueError"
    /\ last.args.feedback = "bogus"
    /\ Len(decisions) >= 1
    /\ decisions[1].user_feedback = "correct"
    /\ last.args.decision_id \in {1, Len(decisions) + 1}

\* The fields of a Decision row other than user_feedback.
Immutable(row) == [row EXCEPT !.user_feedback = None]

\* C12: the stores are append-only under every operation of the facade: agent
\* records, Decision rows and log entries are never deleted and no field of
\* an existing row changes, except the user_feedback of the Decision whose id
\* a provide_feedback call names.  set_autonomy_level never alters a recorded
\* Decision and provide_feedback on one id never alters another Decision.
C12_StoresAppendOnly ==
    [][/\ Len(agents') >= Len(agents)
       /\ SubSeq(agents', 1, Len(agents)) = agents
       /\ Len(logs') >= Len(logs)
       /\ SubSeq(logs', 1, Len(logs)) = logs
       /\ Len(decisions') >= Len(decisions)
       /\ \A i \in 1..Len(decisions) :
             /\ Immutable(decisions'[i]) = Immutable(decisions[i])
             /\ decisions'[i].user_feedback # decisions[i].user_feedback
                   => /\ last'.op = "provide_feedback"
                      /\ last'.args.decision_id = decisions[i].id
                      /\ decisions'[i].user_feedback = last'.args.feedback
       /\ last'.op = "set_autonomy_level" => decisions' = decisions]_vars

\* provide_feedback just changed the feedback of decision 1 while decision 2
\* exists without feedback, and decision 1 keeps the posture it was recorded
\* under although set_autonomy_level changed the posture since.
C12_Witness ==
    /\ last.op = "provide_feedback"
    /\ last.raised = None
    /\ last.args.decision_id = 1
    /\ Len(decisions) = 2
    /\ decisions[1].user_feedback = last.args.feedback
    /\ decisions[2].user_feedback = None
    /\ decisions[1].autonomy_level = "balanced"
    /\ get_autonomy_level = "aggressive"

-----------------------------------------------------------------------------
(* Claims about the decision history (Spec)                                *)

\* The ids of the rows of a result, in the order of the result.
Ids(rows) == [i \in 1..Len(rows) |-> rows[i].id]

\* C13: get_decision_history(limit=n) returns exactly the min(n, total) most
\* recently recorded decisions, the most recently recorded first, also when
\* several were recorded within the same clock second, and the empty list when
\* there is none.  Stated for the states in which every decision belongs to a
\* registered agent.
C13_HistoryNewestFirst ==
    (\A i \in 1..Len(decisions) : decisions[i].agent_id \in AgentIdSet)
        => \A n \in 0..(Len(decisions) + 1) :
              LET total == Len(decisions)
                  count == IF n < total THEN n ELSE total
              IN  Ids(get_decision_history(n))
                      = [k \in 1..count |-> decisions[total - k + 1].id]

-----------------------------------------------------------------------------
(* Claims about the Agent Registry (Spec)                                  *)

\* C14: a successful spawn_agent call adds exactly one agent record, active
\* and with the given task, repo, priority and budget, and exactly one log
\* entry for the new agent (system_event, direction system, in the returned
\* session, metadata holding the given repo_path, priority and budget); right
\* afterwards get_agent_logs(agent_id) returns exactly that entry.
C14_SpawnAddsAgentAndOneLog ==
    [][(last'.op = "spawn_agent" /\ last'.raised = None)
          => \A agent_id \in AgentIds :
                last'.ret[1] = agent_id
                  => /\ Len(agents') = Len(agents) + 1
                     /\ SubSeq(agents', 1, Len(agents)) = agents
                     /\ LET a == agents'[Len(agents')]
                        IN  /\ a.id = agent_id
                            /\ a.status = "active"
                            /\ a.task_description = last'.args.task_description
                            /\ a.repo_path = last'.args.repo_path
                            /\ a.priority = last'.args.priority
                            /\ a.budget = last'.args.budget
                     /\ Len(logs') = Len(logs) + 1
                     /\ SubSeq(logs', 1, Len(logs)) = logs
                     /\ LET l == logs'[Len(logs')]
                        IN  /\ l.agent_id = agent_id
                            /\ l.interaction_type = "system_event"
                            /\ l.direction = "system"
                            /\ l.session_id = last'.ret[2]
                            /\ {<<"repo_path", last'.args.repo_path>>,
                                <<"priority", last'.args.priority>>,
                                <<"budget", last'.args.budget>>}
                                   \subseteq json_loads(l.metadata).items
                     /\ Ids(get_agent_logs(agent_id, None, NoLimit, None)')
                            = <<logs'[Len(logs')].id>>]_vars

\* The task descriptions the claim calls empty or whitespace-only.
ClaimBlankTasks == {"", "  "}

\* C15: spawn_agent with an empty or whitespace-only task_description raises
\* ValueError and with task_description None raises TypeError; either way no
\* agent record, no log entry and no task note is created: the state is the
\* state before the call.
C15_SpawnRejectsBadTask ==
    [][(/\ last'.op = "spawn_agent"
        /\ last'.args.task_description \in ClaimBlankTasks \cup {None})
          => /\ last'.raised = IF last'.args.task_description = None
                               THEN "TypeError" ELSE "ValueError"
             /\ agents' = agents
             /\ notes' = notes
             /\ logs' = logs
             /\ decisions' = decisions
             /\ config' = config
             /\ now' = now]_vars

\* A whitespace-only task was just rejected while one agent is registered: its
\* record, note and spawn log entry are all there is.
C15_Witness ==
    /\ last.op = "spawn_agent"
    /\ last.raised = "ValueError"
    /\ last.args.task_description = "  "
    /\ Len(agents) = 1
    /\ DOMAIN notes = {agents[1].id}
    /\ Len(logs) = 1

\* C16: agent ids are unique over any sequence of spawn_agent calls, also when
\* the generator yields a token in use: the id a spawn returns was not
\* registered before, registered ids are pairwise distinct, and no spawn call,
\* successful or failing, overwrites the record or the task note of a
\* registered agent.
C16_SpawnNeverOverwrites ==
    [][last'.op = "spawn_agent"
          => /\ last'.raised = None => last'.ret[1] \notin AgentIdSet
             /\ \A i, j \in 1..Len(agents') :
                   agents'[i].id = agents'[j].id => i = j
             /\ \A agent_id \in AgentIdSet :
                   /\ AgentRows(agent_id)' = AgentRows(agent_id)
                   /\ agent_id \in DOMAIN notes
                        => notes'[agent_id] = notes[agent_id]]_vars

\* C17: get_active_agents returns exactly the agents whose status is active
\* (every spawned agent from its spawn on, never one whose status is
\* completed, the empty list when none is active), and the registry offers an
\* update operation by which an active agent's status becomes completed.
C17_ActiveAgentsAndStatusUpdate ==
    /\ Ids(get_active_agents)
          = Ids(SelectSeq(agents, LAMBDA a : a.status = "active"))
    /\ \A i \in 1..Len(agents) :
          agents[i].status = "completed"
             => \A k \in 1..Len(get_active_agents) : get_active_agents[k].id # agents[i].id
    /\ \A i \in 1..Len(agents) :
          (agents[i].status = "active" /\ calls < MaxCalls)
             => ENABLED (Next /\ agents'[i].status = "completed")

-----------------------------------------------------------------------------
(* Claims about the Interaction Log (Spec)                                 *)

\* C18: every log_interaction call is retrievable afterwards:
\* get_agent_logs(agent_id=agent_id) has an entry with the content passed and
\* with metadata that decodes to the metadata passed (a non-empty map, an empty
\* map or none).  Stated for the calls made for a registered agent.
C18_LogRoundTrip ==
    [][last'.op = "log_interaction"
          => \A agent_id \in AgentIdSet :
                last'.args.agent_id = agent_id
                  => \E i \in 1..Len(get_agent_logs(agent_id, None, NoLimit, None)') :
                        LET row == get_agent_logs(agent_id, None, NoLimit, None)'[i]
                        IN  /\ row.content = last'.args.content
                            /\ json_loads(row.metadata) = last'.args.metadata]_vars

\* The filter and limit values get_agent_logs is called with.
AgentFilters == AgentIds \cup {None}
SessionFilters == {"s1", "s2", None}
TypeFilters == {"agent_request", None}
LimitInputs == {NoLimit, LimitOf(0), LimitOf(1)}

\* The stored entries that satisfy every supplied filter, in insertion order.
Matching(agent_id, session_id, interaction_type) ==
    SelectSeq(logs, LAMBDA l : /\ agent_id # None => l.agent_id = agent_id
                               /\ session_id # None => l.session_id = session_id
                               /\ interaction_type # None
                                     => l.interaction_type = interaction_type)

\* C19: get_agent_logs returns exactly the stored entries that satisfy every
\* supplied filter, oldest first in insertion order (also within one clock
\* second), and with a limit the first `limit` of them, limit 0 included.
\* Stated for the states in which every entry belongs to a registered agent.
C19_LogsFilteredInOrder ==
    (\A i \in 1..Len(logs) : logs[i].agent_id \in AgentIdSet)
        => \A agent_id \in AgentFilters, session_id \in SessionFilters,
              interaction_type \in TypeFilters, limit \in LimitInputs :
              LET all == Ids(Matching(agent_id, session_id, interaction_type))
                  expected == IF limit.none THEN all
                              ELSE SubSeq(all, 1, IF limit.value < Len(all)
                                                  THEN limit.value ELSE Len(all))
              IN  Ids(get_agent_logs(agent_id, session_id, limit, interaction_type))
                      = expected

\* C20: get_agent_sessions(agent_id) has one row per distinct session_id used
\* for the agent, with the number of the agent's entries in that session as
\* its count and the minimum / maximum of their timestamps as its first / last
\* timestamp; the rows are ordered by first timestamp, descending.
C20_SessionsGrouped ==
    \A agent_id \in AgentIds :
        LET sessions == get_agent_sessions(agent_id)
            mine == {i \in 1..Len(logs) : logs[i].agent_id = agent_id}
            Of(session_id) == {i \in mine : logs[i].session_id = session_id}
        IN  /\ {sessions[k].session_id : k \in 1..Len(sessions)}
                  = {logs[i].session_id : i \in mine}
            /\ \A j, k \in 1..Len(sessions) :
                  sessions[j].session_id = sessions[k].session_id => j = k
            /\ \A k \in 1..Len(sessions) :
                  LET entries == Of(sessions[k].session_id)
                  IN  /\ sessions[k].interaction_count = Cardinality(entries)
                      /\ \E i \in entries : logs[i].timestamp = sessions[k].start_time
                      /\ \A i \in entries : logs[i].timestamp >= sessions[k].start_time
                      /\ \E i \in entries : logs[i].timestamp = sessions[k].end_time
                      /\ \A i \in entries : logs[i].timestamp <= sessions[k].end_time
            /\ \A k \in 1..(Len(sessions) - 1) :
                  sessions[k].start_time >= sessions[k + 1].start_time

\* An agent with three entries in two sessions: the session seen first has
\* two entries, one of them written after the other session began, and comes
\* last.
C20_Witness ==
    \E agent_id \in AgentIds :
        LET sessions == get_agent_sessions(agent_id)
        IN  /\ Len(sessions) = 2
            /\ sessions[2].interaction_count = 2
            /\ sessions[1].interaction_count = 1
            /\ sessions[1].start_time > sessions[2].start_time
            /\ sessions[2].end_time >= sessions[1].start_time

-----------------------------------------------------------------------------
\* C21: search_logs(term, agent_id, limit) returns, newest first and at most
\* limit entries, exactly the entries whose content contains the term as a
\* substring (and that belong to agent_id when one is given): every returned
\* entry contains the term, and no matching entry is left out while fewer than
\* limit are returned, for terms with '%', '_' or other letter case as well.

SearchTerms == {"work", "WORK", "_", "%"}
SearchLimits == {search_logs_limit, 1}

\* The stored entries whose raw content contains the term.
Containing(search_term, agent_id) ==
    {logs[i].id : i \in {j \in 1..Len(logs) :
        /\ Contains(ContentChars[logs[j].content], ContentChars[search_term])
        /\ Supplied(agent_id) => logs[j].agent_id = agent_id}}

C21_SearchIsSubstringMatch ==
    \A search_term \in SearchTerms, agent_id \in AgentFilters, limit \in SearchLimits :
        LET found == search_logs(search_term, agent_id, limit)
        IN  /\ Len(found) <= limit
            /\ \A i \in 1..Len(found) : found[i].id \in Containing(search_term, agent_id)
            /\ Len(found) < limit
                  => {found[i].id : i \in 1..Len(found)} = Containing(search_term, agent_id)
            /\ \A i, j \in 1..Len(found) : i < j => found[i].timestamp >= found[j].timestamp

-----------------------------------------------------------------------------
\* C22: a simulate_agent_interaction call that returns appends, in the given
\* session and for each request in input order, one agent_request entry whose
\* content is the request, then one manager_response entry carrying the
\* decision, then at least one agent_output entry (ending with the completion
\* when approved, the awaiting-approval one when escalated); the entries of a
\* request precede those of the next, and exactly n agent_request and n
\* manager_response entries are added for n requests.

\* The index, among the entries added, of the k-th agent_request entry.
RequestEntry(added, k) ==
    LET starts == {i \in 1..Len(added) : added[i].interaction_type = "agent_request"}
    IN  CHOOSE i \in starts : Cardinality({j \in starts : j < i}) = k - 1

Status(entry) == {item[2] : item \in {it \in json_loads(entry.metadata).items :
                                          it[1] = "status"}}

C22_SimulateLogsEveryStepInOrder ==
    [][(last'.op = "simulate_agent_interaction" /\ last'.raised = None)
          => LET tool_requests == last'.args.tool_requests
                 n == Len(tool_requests)
                 added == SubSeq(logs', Len(logs) + 1, Len(logs'))
                 OfType(type) == {i \in 1..Len(added) : added[i].interaction_type = type}
             IN  /\ SubSeq(logs', 1, Len(logs)) = logs
                 /\ \A i \in 1..Len(added) :
                       /\ added[i].agent_id = last'.args.agent_id
                       /\ added[i].session_id = last'.args.session_id
                       /\ added[i].interaction_type
                              \in {"agent_request", "manager_response", "agent_output"}
                 /\ \A i \in 1..(Len(added) - 1) : added[i].timestamp <= added[i + 1].timestamp
                 /\ Cardinality(OfType("agent_request")) = n
                 /\ Cardinality(OfType("manager_response")) = n
                 /\ n > 0 => added[1].interaction_type = "agent_request"
                 /\ \A k \in 1..n :
                       LET first == RequestEntry(added, k)
                           final == IF k = n THEN Len(added)
                                    ELSE RequestEntry(added, k + 1) - 1
                       IN  /\ added[first].content = json_dumps_indent2(tool_requests[k])
                           /\ final >= first + 2
                           /\ added[first + 1].interaction_type = "manager_response"
                           /\ added[first + 1].content
                                  \in {"Decision: APPROVE", "Decision: ESCALATE"}
                           /\ \A i \in (first + 2)..final :
                                  added[i].interaction_type = "agent_output"
                           /\ added[first + 1].content = "Decision: APPROVE"
                                  => Status(added[final]) = {"completed"}
                           /\ added[first + 1].content = "Decision: ESCALATE"
                                  => Status(added[final]) = {"waiting_approval"}]_vars

\* A call for two requests has returned; the first request was approved and
\* the second escalated.
C22_Witness ==
    /\ last.op = "simulate_agent_interaction"
    /\ last.raised = None
    /\ Len(last.args.tool_requests) = 2
    /\ Len(logs) >= 7
    /\ logs[Len(logs) - 5].content = "Decision: APPROVE"
    /\ logs[Len(logs) - 1].content = "Decision: ESCALATE"

-----------------------------------------------------------------------------
\* C23: the text export of an agent's entries has exactly one session header
\* for each distinct session id of the agent, and every entry of a session
\* stands after the header of its session and before the next header, however
\* the log calls of the sessions were interleaved; a format other than 'json'
\* or 'text' raises the unsupported-format error.

ExportFormats == {"json", "text", "xml"}

C23_TextExportGroupsBySession ==
    \A agent_id \in AgentIds :
        LET rows == get_agent_logs(agent_id, None, NoLimit, None)
            lines == export_logs(agent_id, "text").lines
            Headers(session_id) ==
                {i \in 1..Len(lines) :
                    lines[i].kind = "session" /\ lines[i].session_id = session_id}
            AnyHeader == {i \in 1..Len(lines) : lines[i].kind = "session"}
        IN  /\ \A k \in 1..Len(rows) :
                  /\ Cardinality(Headers(rows[k].session_id)) = 1
                  /\ \E i \in 1..Len(lines) :
                        /\ lines[i].kind = "entry"
                        /\ lines[i].entry = rows[k].id
                        /\ \E h \in Headers(rows[k].session_id) :
                              /\ h < i
                              /\ \A other \in AnyHeader : other <= h \/ other > i
            /\ \A format \in ExportFormats :
                  format \notin {"json", "text"}
                      => export_logs(agent_id, format).raised = "ValueError"

-----------------------------------------------------------------------------
\* C24: in simulate_agent_interaction an 'executing' or 'completed'
\* agent_output is logged for a request only after the manager_response
\* 'Decision: APPROVE' of that request; a request whose risk score exceeds the
\* risk_threshold of the posture in effect, or that is evaluated with a
\* confidence below its confidence_threshold, gets 'Decision: ESCALATE' and the
\* awaiting-approval output only.

\* The entries the call added for its k-th request.
RequestEntries(added, k) ==
    LET first == RequestEntry(added, k)
        later == {i \in (first + 1)..Len(added) : added[i].interaction_type = "agent_request"}
    IN  SubSeq(added, first, IF later = {} THEN Len(added) ELSE SetMax({-i : i \in later}) * (-1) - 1)

C24_ExecutesOnlyWhenApproved ==
    [][last'.op = "simulate_agent_interaction"
          => LET tool_requests == last'.args.tool_requests
                 added == SubSeq(logs', Len(logs) + 1, Len(logs'))
                 logged == Cardinality({i \in 1..Len(added) :
                                           added[i].interaction_type = "agent_request"})
             IN  \A k \in 1..logged :
                    LET entries == RequestEntries(added, k)
                        outputs == {i \in 1..Len(entries) :
                                       entries[i].interaction_type = "agent_output"}
                        cfg == thresholds[get_autonomy_level]
                        evaluated_with == confidence_of(decisions, entries[1].timestamp)
                    IN  /\ Len(entries) >= 2
                        /\ entries[2].interaction_type = "manager_response"
                        /\ \A i \in outputs :
                              Status(entries[i]) \subseteq {"executing", "completed"}
                                  => entries[2].content = "Decision: APPROVE"
                        /\ (\/ _assess_risk(tool_requests[k]) > cfg.risk_threshold
                            \/ FracLess(evaluated_with, Hundredths(cfg.confidence_threshold)))
                              => /\ entries[2].content = "Decision: ESCALATE"
                                 /\ outputs = {3}
                                 /\ Len(entries) = 3
                                 /\ Status(entries[3]) = {"waiting_approval"}]_vars

\* A call has logged, for a low-risk request, the approval and then the
\* executing and completed outputs, and for a request above the posture's risk
\* threshold the escalation and the awaiting-approval output alone.
C24_Witness ==
    /\ last.op = "simulate_agent_interaction"
    /\ last.args.tool_requests = ReadThenRemove
    /\ Len(logs) >= 7
    /\ LET added == SubSeq(logs, Len(logs) - 6, Len(logs))
       IN  /\ added[2].content = "Decision: APPROVE"
           /\ Status(added[3]) = {"executing"}
           /\ Status(added[4]) = {"completed"}
           /\ added[5].interaction_type = "agent_request"
           /\ _assess_risk(ReadThenRemove[2]) > thresholds[get_autonomy_level].risk_threshold
           /\ added[6].content = "Decision: ESCALATE"
           /\ Status(added[7]) = {"waiting_approval"}

-----------------------------------------------------------------------------
\* C25: for every record_decision call, the autonomy_level in the Decision row
\* equals the autonomy_level in the metadata and in the reasoning of the
\* manager_response entry the same call wrote, and both equal the posture that
\* was configured when the call started, also when set_autonomy_level calls of
\* another caller run between the statements of the call.
C25_PostureOfCallIsOne ==
    [][(inflight.pc = "read" /\ inflight'.pc = "idle")
          => LET row == decisions'[inflight.decision_id]
                 entry == logs'[Len(logs')]
                 Item(key) == {item[2] : item \in {it \in json_loads(entry.metadata).items :
                                                       it[1] = key}}
             IN  /\ entry.interaction_type = "manager_response"
                 /\ row.autonomy_level = inflight.started_under
                 /\ Item("autonomy_level") = {row.autonomy_level}
                 /\ \A reasoning \in Item("decision_reasoning") :
                        reasoning.Autonomy = row.autonomy_level]_vars

-----------------------------------------------------------------------------
\* C26: the postures are ordered by strictness: for the request, confidence
\* and random draw of any should_escalate call, if the answer under the
\* aggressive posture is true then so is the answer under balanced, and if the
\* answer under balanced is true then so is the answer under conservative.

\* What should_escalate answers for the inputs of the last call when the
\* posture configured is `level`.
AnswerUnder(level) ==
    escalate_decision(thresholds[level], _assess_risk(last.args.request_data),
                      last.args.confidence_score, last.args.r)

C26_PosturesOrderedByStrictness ==
    last.op = "should_escalate"
        => /\ last.ret = AnswerUnder(get_autonomy_level)
           /\ AnswerUnder("aggressive") => AnswerUnder("balanced")
           /\ AnswerUnder("balanced") => AnswerUnder("conservative")

\* A call under the conservative posture that escalates on the random draw
\* alone; the same inputs are approved under balanced and under aggressive.
C26_Witness ==
    /\ last.op = "should_escalate"
    /\ get_autonomy_level = "conservative"
    /\ last.ret = TRUE
    /\ ~AnswerUnder("balanced")
    /\ ~AnswerUnder("aggressive")
    /\ _assess_risk(last.args.request_data) <= thresholds["conservative"].risk_threshold
    /\ FracLeq(Hundredths(thresholds["conservative"].confidence_threshold),
               last.args.confidence_score)

-----------------------------------------------------------------------------
\* C27: cold start: in every state with no feedback-bearing decision in the
\* trailing 30 days and the balanced (default) or the conservative posture,
\* should_escalate(request, confidence_score()) is true for every request and
\* every random draw, and a simulate_agent_interaction call made in such a
\* state logs no 'Decision: APPROVE'.

ColdStart ==
    /\ FeedbackRows(decisions, now) = <<>>
    /\ get_autonomy_level \in {"balanced", "conservative"}

\* A request without any risk keyword, a read, and a destructive command.
ColdRequests ==
    {Dict("edit", "command", "true"), Dict("read", "file", "main.py"),
     Dict("bash", "command", "rm -rf /")}

\* The least draw, a middle one and the greatest of the grid.
ColdDraws == {r \in DrawGrid : r.n \in {0, 5 * GridStep, SetMax(Grid \ {100})}}

EscalatesWhateverAsked ==
    LET confidence_score == calculate_confidence_score
    IN  \A request_data \in ColdRequests, r \in ColdDraws :
            should_escalate(request_data, confidence_score, r)

C27_ColdStartAlwaysEscalates ==
    [][/\ (calls = 0 /\ ColdStart) => EscalatesWhateverAsked
       /\ ColdStart' => EscalatesWhateverAsked'
       /\ (ColdStart /\ last'.op = "simulate_agent_interaction")
             => \A i \in (Len(logs) + 1)..Len(logs') :
                    logs'[i].content # "Decision: APPROVE"]_vars

\* A call made under the conservative posture, with a decision recorded but
\* no feedback given, has escalated both of its requests, the low-risk one
\* included.
C27_Witness ==
    /\ last.op = "simulate_agent_interaction"
    /\ last.args.tool_requests = ReadThenRemove
    /\ get_autonomy_level = "conservative"
    /\ decisions # <<>>
    /\ FeedbackRows(decisions, now) = <<>>
    /\ Len(logs) >= 6
    /\ logs[Len(logs) - 4].content = "Decision: ESCALATE"
    /\ logs[Len(logs) - 3].interaction_type = "agent_output"
    /\ logs[Len(logs) - 1].content = "Decision: ESCALATE"

-----------------------------------------------------------------------------
\* C28: simulate_agent_interaction writes only to the interaction log: the
\* agent records, the Decision rows (feedback included) and the configuration
\* are the same before and after the call, and confidence_score() has the same
\* value for every request of the run and after it.

\* The confidence_score in the metadata of the manager_response entries added.
LoggedConfidence ==
    LET responses == {i \in (Len(logs) + 1)..Len(logs') :
                         logs'[i].interaction_type = "manager_response"}
        items == UNION {json_loads(logs'[i].metadata).items : i \in responses}
    IN  {item[2] : item \in {it \in items : it[1] = "confidence_score"}}

SimulateFrame ==
    /\ agents' = agents
    /\ notes' = notes
    /\ decisions' = decisions
    /\ config' = config
    /\ approval_queue' = approval_queue
    /\ SubSeq(logs', 1, Len(logs)) = logs

C28_SimulateWritesOnlyLog ==
    [][last'.op = "simulate_agent_interaction"
          => /\ SimulateFrame
             /\ FracEq(calculate_confidence_score', calculate_confidence_score)
             /\ \A confidence_score \in LoggedConfidence :
                    FracEq(confidence_score, calculate_confidence_score)]_vars

\* As amended: the value is the same as long as the same decisions with
\* feedback are within the trailing 30 days before and after the run.
C28_SimulateWritesOnlyLogSameWindow ==
    [][last'.op = "simulate_agent_interaction"
          => /\ SimulateFrame
             /\ FeedbackRows(decisions', now') = FeedbackRows(decisions, now)
                   => /\ FracEq(calculate_confidence_score', calculate_confidence_score)
                      /\ \A confidence_score \in LoggedConfidence :
                             FracEq(confidence_score, calculate_confidence_score)]_vars

\* A run has approved its first request with a confidence taken from a
\* decision with feedback, the clock has moved on during the run, and the
\* decision is still within the window.
C28_Witness ==
    /\ last.op = "simulate_agent_interaction"
    /\ last.args.tool_requests = ReadThenRemove
    /\ FeedbackRows(decisions, now) # <<>>
    /\ ~FracEq(calculate_confidence_score, Frac(1, 2))
    /\ Len(logs) >= 7
    /\ logs[Len(logs) - 5].content = "Decision: APPROVE"
    /\ logs[Len(logs) - 3].timestamp > logs[Len(logs) - 4].timestamp
    /\ logs[Len(logs)].timestamp = now

-----------------------------------------------------------------------------
\* C29: for every agent_id that log_interaction was called with, the session
\* ids get_agent_sessions(agent_id) returns are the session ids occurring in
\* get_agent_logs(agent_id=agent_id) without a limit, and the session counts
\* add up to the number of entries get_agent_logs returns.
C29_SessionsAgreeWithLogs ==
    \A agent_id \in {logs[i].agent_id : i \in 1..Len(logs)} :
        LET sessions == get_agent_sessions(agent_id)
            entries == get_agent_logs(agent_id, None, NoLimit, None)
        IN  /\ {sessions[k].session_id : k \in 1..Len(sessions)}
                  = {entries[i].session_id : i \in 1..Len(entries)}
            /\ SeqSum([k \in 1..Len(sessions) |-> sessions[k].interaction_count])
                  = Len(entries)

-----------------------------------------------------------------------------
\* C30: no operation of the facade inserts into the approval queue: after any
\* sequence of spawn_agent, record_decision (decision 'escalate' included),
\* provide_feedback, log_interaction, simulate_agent_interaction and
\* configuration calls, get_approval_queue() returns the empty list.
C30_ApprovalQueueStaysEmpty ==
    /\ approval_queue = <<>>
    /\ get_approval_queue = <<>>

\* An 'escalate' decision has been recorded for a registered agent and a
\* simulation has escalated a request of the same agent.
C30_Witness ==
    /\ \E i \in 1..Len(decisions) :
           /\ decisions[i].decision = "escalate"
           /\ decisions[i].agent_id \in AgentIdSet
    /\ last.op = "simulate_agent_interaction"
    /\ last.args.agent_id \in AgentIdSet
    /\ logs[Len(logs) - 1].content = "Decision: ESCALATE"
    /\ get_approval_queue = <<>>

=============================================================================
